---- MODULE Spec2Model ----
(***************************************************************************)
(* Product management dashboard: the Express/Mongoose backend (auth,       *)
(* category and product controllers) and the React product form.           *)
(*                                                                         *)
(* A request lives in a slot: it is received, passes the `protect`         *)
(* middleware when its route is protected, is handled, and its response    *)
(* is delivered to the client.  Strings the code inspects are sequences of *)
(* characters (names) or of '/'-separated segments of '.'-separated atoms  *)
(* (URLs); numbers are integers in thousandths.                            *)
(***************************************************************************)
EXTENDS Integers, Sequences, FiniteSets, TLC

\* ---------------------------------------------------------------- bounds
MaxCategories == 2      \* category documents ever inserted
MaxProducts == 1        \* product documents ever inserted
MaxUploads == 2         \* media objects ever uploaded
MaxTime == 1            \* clock ticks (one tick = one token lifetime)

VARIABLES
    users,              \* the users collection (set of user documents)
    jwtSecret,          \* process.env.JWT_SECRET: "unset" or the configured key
    now,                \* the clock jwt.verify reads
    categories,         \* the categories collection
    nextCategoryId,     \* next fresh _id of a category
    products,           \* the products collection
    nextProductId,      \* next fresh _id of a product
    uploads,            \* number of media objects uploaded so far
    media,              \* public ids stored by the media host
    slots,              \* requests in flight, one record per slot
    ui                  \* the state of the ProductManagement component

authVars == <<users, jwtSecret, now>>
catVars == <<categories, nextCategoryId>>
prodVars == <<products, nextProductId>>
mediaVars == <<uploads, media>>
vars == <<users, jwtSecret, now, categories, nextCategoryId, products,
          nextProductId, uploads, media, slots, ui>>

\* ------------------------------------------------------- optional values
None == <<>>
Some(v) == <<v>>
IsSome(o) == Len(o) = 1
Val(o) == o[1]

\* ---------------------------------------------------------------- strings
\* String.prototype.trim on a sequence of characters
RECURSIVE TrimLeft(_)
TrimLeft(s) ==
    IF s = <<>> THEN <<>>
    ELSE IF Head(s) = " " THEN TrimLeft(Tail(s)) ELSE s

RECURSIVE TrimRight(_)
TrimRight(s) ==
    IF s = <<>> THEN <<>>
    ELSE IF s[Len(s)] = " " THEN TrimRight(SubSeq(s, 1, Len(s) - 1)) ELSE s

Trim(s) == TrimRight(TrimLeft(s))

\* JavaScript truthiness of an optional string: undefined and "" are falsy
TruthyStr(o) == IsSome(o) /\ Val(o) # <<>>

\* ------------------------------------------------------------- responses
Res(status, error, by) ==
    [status |-> status, error |-> error, errors |-> {}, by |-> by]
ResErrors(status, errors, by) ==
    [status |-> status, error |-> "none", errors |-> errors, by |-> by]

Slots == {"r1", "r2"}
Idle == [pc |-> "idle"]

\* res.status(...).json(...): the handler's response ends the request
Respond(s, res) ==
    slots' = [slots EXCEPT ![s] = [pc |-> "done", req |-> slots[s].req, res |-> res]]

\* the slot moves on to its next await point, keeping handler locals
Goto(s, pc, locals) ==
    slots' = [slots EXCEPT ![s] =
                 [pc |-> pc, req |-> slots[s].req, loc |-> locals]]

At(s, pc, op) == slots[s].pc = pc /\ slots[s].req.op = op

Range(seq) == {seq[i] : i \in 1..Len(seq)}

\* the step in which slot s runs the handler of `op` to its response
Handles(s, op) == At(s, "handler", op) /\ slots'[s].pc = "done"

InFlight(op) == Cardinality({s \in Slots : slots[s].pc # "idle" /\ slots[s].req.op = op})

\* ================================================================ categories
CategoryNameMin == 2
CategoryNameMax == 100

\* categoryController: `!name || name.trim().length < 2`
CategoryNameInvalid(name) ==
    ~TruthyStr(name) \/ Len(Trim(Val(name))) < CategoryNameMin

\* the Category schema's validators (trim is applied before they run)
CategorySchemaOk(name) ==
    Len(Trim(name)) >= CategoryNameMin /\ Len(Trim(name)) <= CategoryNameMax

\* a collection without the unique index
UniqueIndexRejects_noIndex(name, id) == FALSE

\* the unique index on Category.name: is `name` held by a document other than `id`
UniqueIndexRejects(name, id) ==
    \E c \in categories : c.name = name /\ c.id # id

\* Category.findOne({ name })
CategoryFindOne(name) == {c \in categories : c.name = name}

\* Category.findById(id)
CategoryFindById(id) == {c \in categories : c.id = id}

\* Category.create({ name }): "ok", or the error the driver throws
CategoryCreate(name) ==
    IF ~CategorySchemaOk(name) THEN "ValidationError"
    ELSE IF UniqueIndexRejects(Trim(name), 0) THEN "E11000"
    ELSE "ok"

\* createCategory up to the existence check: the early response, or None
createCategoryCheck(req) ==
    IF CategoryNameInvalid(req.name)
      THEN Some(ResErrors(400, {"name"}, "createCategory"))
    ELSE IF CategoryFindOne(Trim(Val(req.name))) # {}
      THEN Some(Res(409, "DUPLICATE_CATEGORY", "createCategory"))
    ELSE None

\* createCategory from Category.create on, the catch block included
createCategoryInsert(s) ==
    LET name == Trim(Val(slots[s].req.name))
        out == CategoryCreate(name)
    IN  IF out = "ok"
          THEN /\ categories' = categories \cup {[id |-> nextCategoryId, name |-> name]}
               /\ nextCategoryId' = nextCategoryId + 1
               /\ Respond(s, Res(201, "none", "createCategory"))
        ELSE IF out = "E11000"
          THEN /\ UNCHANGED catVars
               /\ Respond(s, Res(409, "DUPLICATE_CATEGORY", "createCategory"))
        ELSE /\ UNCHANGED catVars
             /\ Respond(s, Res(500, "SERVER_ERROR", "createCategory"))

\* POST /api/categories, run without interruption
createCategory(s) ==
    /\ At(s, "handler", "createCategory")
    /\ LET r == createCategoryCheck(slots[s].req)
       IN  IF IsSome(r)
             THEN Respond(s, Val(r)) /\ UNCHANGED catVars
             ELSE createCategoryInsert(s)
    /\ UNCHANGED <<ui, authVars, prodVars, mediaVars>>

\* updateCategory up to findById: the early response, or None
updateCategoryFind(req) ==
    IF CategoryNameInvalid(req.name)
      THEN Some(ResErrors(400, {"name"}, "updateCategory"))
    ELSE IF CategoryFindById(req.id) = {}
      THEN Some(Res(404, "NOT_FOUND", "updateCategory"))
    ELSE None

\* updateCategory's duplicate check, excluding the record's own id
updateCategoryCheck(req) ==
    IF \E c \in CategoryFindOne(Trim(Val(req.name))) : c.id # req.id
      THEN Some(Res(409, "DUPLICATE_CATEGORY", "updateCategory"))
    ELSE None

\* category.save() of the document loaded as `doc` with its name set to `name`
CategorySave(doc, name) ==
    IF name = doc.name THEN "unmodified"
    ELSE IF ~CategorySchemaOk(name) THEN "ValidationError"
    ELSE IF CategoryFindById(doc.id) = {} THEN "DocumentNotFoundError"
    ELSE IF UniqueIndexRejects(name, doc.id) THEN "E11000"
    ELSE "ok"

\* updateCategory from the assignment on, the catch block included
updateCategorySave(s, doc) ==
    LET name == Trim(Val(slots[s].req.name))
        out == CategorySave(doc, name)
    IN  IF out = "ok"
          THEN /\ categories' = {c \in categories : c.id # doc.id}
                                  \cup {[id |-> doc.id, name |-> name]}
               /\ UNCHANGED nextCategoryId
               /\ Respond(s, Res(200, "none", "updateCategory"))
        ELSE IF out = "unmodified"
          THEN /\ UNCHANGED catVars
               /\ Respond(s, Res(200, "none", "updateCategory"))
        ELSE /\ UNCHANGED catVars
             /\ Respond(s, Res(500, "SERVER_ERROR", "updateCategory"))

\* PUT /api/categories/:id, run without interruption
updateCategory(s) ==
    /\ At(s, "handler", "updateCategory")
    /\ LET req == slots[s].req
           r1 == updateCategoryFind(req)
           r2 == updateCategoryCheck(req)
       IN  IF IsSome(r1) THEN Respond(s, Val(r1)) /\ UNCHANGED catVars
           ELSE IF IsSome(r2) THEN Respond(s, Val(r2)) /\ UNCHANGED catVars
           ELSE updateCategorySave(s, CHOOSE c \in CategoryFindById(req.id) : TRUE)
    /\ UNCHANGED <<ui, authVars, prodVars, mediaVars>>

\* the lookup without its filter: any stored product counts
ProductFindOneByCategory_anyProduct(name) == products

\* the lookup made on the product's own name instead of its category
ProductFindOneByCategory_byName(name) == {p \in products : p.name = name}

\* Product.findOne({ category: name })
ProductFindOneByCategory(name) == {p \in products : p.category = name}

\* the handler without its in-use check
deleteCategoryCheck_skipped(doc) == None

\* deleteCategory's in-use check on the loaded document
deleteCategoryCheck(doc) ==
    IF ProductFindOneByCategory(doc.name) # {}
      THEN Some(Res(400, "CATEGORY_IN_USE", "deleteCategory"))
    ELSE None

\* Category.findByIdAndDelete(id) and the success response
deleteCategoryRemove(s) ==
    /\ categories' = {c \in categories : c.id # slots[s].req.id}
    /\ UNCHANGED nextCategoryId
    /\ Respond(s, Res(200, "none", "deleteCategory"))

\* DELETE /api/categories/:id, run without interruption
deleteCategory(s) ==
    /\ At(s, "handler", "deleteCategory")
    /\ LET req == slots[s].req
           found == CategoryFindById(req.id)
       IN  IF found = {}
             THEN Respond(s, Res(404, "NOT_FOUND", "deleteCategory")) /\ UNCHANGED catVars
           ELSE LET r == deleteCategoryCheck(CHOOSE c \in found : TRUE)
                IN  IF IsSome(r) THEN Respond(s, Val(r)) /\ UNCHANGED catVars
                    ELSE deleteCategoryRemove(s)
    /\ UNCHANGED <<ui, authVars, prodVars, mediaVars>>

\* ================================================================ media host
\* A URL is the sequence of its '/'-separated segments, each the sequence of
\* its '.'-separated atoms: "a.b/c" is << <<"a","b">>, <<"c">> >>.
ImgNames == <<"img1", "img2", "img3", "img4", "img5", "img6">>

\* result.secure_url of the n-th upload into folder 'product-management'
CloudUrl(n) ==
    << <<"https:">>, <<"">>, <<"res", "cloudinary", "com">>, <<"demo">>,
       <<"image">>, <<"upload">>, <<"v1">>, <<"product-management">>,
       <<ImgNames[n], "jpg">> >>

\* the public id the media host gives the n-th upload (folder/name)
CloudPublicId(n) == <<"product-management", ImgNames[n]>>

EmptyUrl == << <<"">> >>
HttpUrl == << <<"http:">>, <<"">>, <<"example", "org">>, <<"a", "png">> >>
PlainText == << <<"picture">> >>
\* "http://evil.example/cloudinary.com.png": the text in the path, another host
EvilUrl == << <<"http:">>, <<"">>, <<"evil", "example">>, <<"cloudinary", "com", "png">> >>

\* url.includes('cloudinary.com'): the text never spans a '/', and over the
\* atoms used here it is present exactly where "cloudinary" is followed by "com"
IncludesCloudinary(url) ==
    \E i \in 1..Len(url) : \E j \in 1..(Len(url[i]) - 1) :
        url[i][j] = "cloudinary" /\ url[i][j + 1] = "com"

\* imageUrl.includes('http')
IncludesHttp(url) ==
    \E i \in 1..Len(url) : \E j \in 1..Len(url[i]) : url[i][j] \in {"http:", "https:"}

\* a non-empty string
TruthyUrl(url) == url # EmptyUrl

\* an extraction that keeps the last path segment only
PublicIdOf_lastSegmentOnly(url) == <<url[Len(url)][1]>>

\* deleteImage's publicId: split('/'), slice(-2).join('/'), split('.')[0]
PublicIdOf(url) ==
    LET lastTwo == SubSeq(url, IF Len(url) > 1 THEN Len(url) - 1 ELSE 1, Len(url))
    IN  IF Len(lastTwo) = 1 \/ Len(lastTwo[1]) > 1
          THEN <<lastTwo[1][1]>>
          ELSE <<lastTwo[1][1], lastTwo[2][1]>>

\* a loop that the first failed upload ends
RECURSIVE ProcessFiles_stopAtFailure(_, _)
ProcessFiles_stopAtFailure(files, n) ==
    IF files = <<>> THEN [urls |-> <<>>, n |-> n]
    ELSE IF Head(files).image /\ Head(files).ok
      THEN LET r == ProcessFiles_stopAtFailure(Tail(files), n + 1)
           IN  [urls |-> <<CloudUrl(n + 1)>> \o r.urls, n |-> r.n]
    ELSE IF Head(files).image THEN [urls |-> <<>>, n |-> n]
    ELSE ProcessFiles_stopAtFailure(Tail(files), n)

\* the for-loop over files.images: a file is uploaded when its mimetype starts
\* with image/, and contributes its URL when the upload succeeds.  n is the
\* number of objects uploaded before the loop.
RECURSIVE ProcessFiles(_, _)
ProcessFiles(files, n) ==
    IF files = <<>> THEN [urls |-> <<>>, n |-> n]
    ELSE IF Head(files).image /\ Head(files).ok
      THEN LET r == ProcessFiles(Tail(files), n + 1)
           IN  [urls |-> <<CloudUrl(n + 1)>> \o r.urls, n |-> r.n]
    ELSE ProcessFiles(Tail(files), n)

\* the calls of uploadFileToCloudinary the for-loop makes: one per file whose
\* mimetype starts with image/, whether the call succeeds or throws
UploadCalls(files) == Len(SelectSeq(files, LAMBDA f : f.image))

\* the calls of uploadImageFromUrl the loop over req.body.images makes
UploadUrlCalls(entries) ==
    Len(SelectSeq(entries, LAMBDA e : /\ TruthyUrl(e.url)
                                      /\ ~IncludesCloudinary(e.url)
                                      /\ IncludesHttp(e.url)))

\* files is {} unless the request is multipart/form-data
FilesOf(req) == IF req.ctype = "multipart" THEN req.files ELSE <<>>

\* `existingImages` is truthy: present and not the empty string
ExistingGiven(req) == IsSome(req.existingImages) /\ Val(req.existingImages).kind # "empty"

\* the test inverted: the media host's URLs are the ones dropped
KeepTest_inverted(url) == TruthyUrl(url) /\ ~IncludesCloudinary(url)

KeepTest(url) == TruthyUrl(url) /\ IncludesCloudinary(url)

\* the kept URLs are pushed only when no file came with the request
KeepUrls_onlyWithoutFiles(req) ==
    IF ExistingGiven(req) /\ Val(req.existingImages).kind = "array" /\ FilesOf(req) = <<>>
      THEN SelectSeq(Val(req.existingImages).urls, KeepTest)
      ELSE <<>>

\* JSON.parse(existingImages) and the forEach that keeps the media host's URLs
KeepUrls(req) ==
    IF ExistingGiven(req) /\ Val(req.existingImages).kind = "array"
      THEN SelectSeq(Val(req.existingImages).urls, KeepTest)
      ELSE <<>>

\* the loop over req.body.images: media-host URLs kept, other http URLs
\* re-hosted (entry.ok is the outcome of uploadImageFromUrl), the rest dropped
RECURSIVE ProcessFlat(_, _)
ProcessFlat(entries, n) ==
    IF entries = <<>> THEN [urls |-> <<>>, n |-> n]
    ELSE LET e == Head(entries)
         IN  IF TruthyUrl(e.url) /\ IncludesCloudinary(e.url)
               THEN LET r == ProcessFlat(Tail(entries), n)
                    IN  [urls |-> <<e.url>> \o r.urls, n |-> r.n]
             ELSE IF TruthyUrl(e.url) /\ IncludesHttp(e.url) /\ e.ok
               THEN LET r == ProcessFlat(Tail(entries), n + 1)
                    IN  [urls |-> <<CloudUrl(n + 1)>> \o r.urls, n |-> r.n]
             ELSE ProcessFlat(Tail(entries), n)

\* req.body.images exists and is an array (req.body is {} for multipart)
FlatGiven(req) == req.ctype = "json" /\ IsSome(req.images)

\* ================================================================ products
ProductNameMin == 2
ProductNameMax == 200
PriceMin == 10          \* 0.01, in thousandths
ImagesMax == 10
Unit == 1000            \* 1, in thousandths

\* parseInt of a number given in thousandths: truncation towards zero
ParseInt(v) == IF v >= 0 THEN (v \div Unit) * Unit ELSE 0 - (((0 - v) \div Unit) * Unit)

\* parseFloat keeps the value
ParseFloat(v) == v

\* the schema without the validator on images
ProductSchemaOk_noImagesValidator(doc) ==
    /\ Len(doc.name) >= ProductNameMin /\ Len(doc.name) <= ProductNameMax
    /\ doc.price >= PriceMin
    /\ Len(doc.category) >= 1
    /\ doc.stock >= 0

\* the Product schema's validators, as run by create() and save()
ProductSchemaOk(doc) ==
    /\ Len(doc.name) >= ProductNameMin /\ Len(doc.name) <= ProductNameMax
    /\ doc.price >= PriceMin
    /\ Len(doc.category) >= 1
    /\ doc.stock >= 0
    /\ Len(doc.images) <= ImagesMax

\* Product.findById(id)
ProductFindById(id) == {p \in products : p.id = id}

\* a validation that stops at the first field with an error
createProductErrors_failFast(req) ==
    IF ~TruthyStr(req.name) \/ Len(Trim(Val(req.name))) < ProductNameMin THEN {"name"}
    ELSE IF ~IsSome(req.price) \/ Val(req.price) <= 0 THEN {"price"}
    ELSE IF ~TruthyStr(req.category) \/ Len(Trim(Val(req.category))) = 0 THEN {"category"}
    ELSE IF ~IsSome(req.stock) \/ Val(req.stock) < 0 THEN {"stock"}
    ELSE {}

\* createProduct's validation: the fields with an error
createProductErrors(req) ==
    {f \in {"name"} : ~TruthyStr(req.name) \/ Len(Trim(Val(req.name))) < ProductNameMin}
    \cup {f \in {"price"} : ~IsSome(req.price) \/ Val(req.price) <= 0}
    \cup {f \in {"category"} : ~TruthyStr(req.category) \/ Len(Trim(Val(req.category))) = 0}
    \cup {f \in {"stock"} : ~IsSome(req.stock) \/ Val(req.stock) < 0}

\* the validation alone, with no look-up of the category
createProductCheck_noLookup(req) ==
    IF createProductErrors(req) # {}
      THEN Some(ResErrors(400, createProductErrors(req), "createProduct"))
    ELSE None

\* createProduct up to the category check: the early response, or None
createProductCheck(req) ==
    IF createProductErrors(req) # {}
      THEN Some(ResErrors(400, createProductErrors(req), "createProduct"))
    ELSE IF CategoryFindOne(Trim(Val(req.category))) = {}
      THEN Some(ResErrors(400, {"category"}, "createProduct"))
    ELSE None

\* a response sent before any call of the media host was made
NoCalls == [calls |-> 0]

\* createProduct's processedImages, the number of objects uploaded after it
\* and the calls of the media host made for it
createProductImages(req, n) ==
    LET up == ProcessFiles(FilesOf(req), n)
    IN  [urls |-> up.urls \o KeepUrls(req), n |-> up.n,
         calls |-> UploadCalls(FilesOf(req))]

\* createProduct from the uploads on, the catch block included
createProductPersist(s) ==
    LET req == slots[s].req
        img == createProductImages(req, uploads)
        doc == [id |-> nextProductId,
                name |-> Trim(Val(req.name)),
                price |-> ParseFloat(Val(req.price)),
                category |-> Trim(Val(req.category)),
                stock |-> ParseInt(Val(req.stock)),
                images |-> img.urls]
    IN  /\ uploads' = img.n
        /\ media' = media \cup {CloudPublicId(k) : k \in (uploads + 1)..img.n}
        /\ IF ProductSchemaOk(doc)
             THEN /\ products' = products \cup {doc}
                  /\ nextProductId' = nextProductId + 1
                  /\ Respond(s, Res(201, "none", "createProduct") @@ [calls |-> img.calls])
             ELSE /\ UNCHANGED prodVars
                  /\ Respond(s, Res(500, "SERVER_ERROR", "createProduct")
                                 @@ [calls |-> img.calls])

\* POST /api/products, run without interruption
createProduct(s) ==
    /\ At(s, "handler", "createProduct")
    /\ LET r == createProductCheck(slots[s].req)
       IN  IF IsSome(r)
             THEN Respond(s, Val(r) @@ NoCalls) /\ UNCHANGED <<prodVars, mediaVars>>
             ELSE createProductPersist(s)
    /\ UNCHANGED <<ui, authVars, catVars>>

\* `fields.x ? ... : undefined`: a multipart field is an array (truthy whatever
\* it holds); a JSON field is the value itself, falsy when "" or 0
GivenStr(req, o) == IsSome(o) /\ (req.ctype = "multipart" \/ Val(o) # <<>>)
GivenNum(req, o) == IsSome(o) /\ (req.ctype = "multipart" \/ Val(o) # 0)

\* updateProduct's validation of the supplied fields: the fields with an error
updateProductErrors(req) ==
    {f \in {"name"} : GivenStr(req, req.name) /\ Len(Trim(Val(req.name))) < ProductNameMin}
    \cup {f \in {"price"} : GivenNum(req, req.price) /\ Val(req.price) <= 0}
    \cup {f \in {"category"} : GivenStr(req, req.category) /\ Len(Trim(Val(req.category))) = 0}
    \cup {f \in {"stock"} : GivenNum(req, req.stock) /\ Val(req.stock) < 0}

\* updateProduct up to the validation: the early response, or None
updateProductFind(req) ==
    IF ProductFindById(req.id) = {}
      THEN Some(Res(404, "NOT_FOUND", "updateProduct"))
    ELSE IF updateProductErrors(req) # {}
      THEN Some(ResErrors(400, updateProductErrors(req), "updateProduct"))
    ELSE None

\* an update that does not look the category up
updateProductCategory_noLookup(req) == None

\* updateProduct's category check, made only when a category is supplied
updateProductCategory(req) ==
    IF GivenStr(req, req.category) /\ Val(req.category) # <<>>
         /\ CategoryFindOne(Trim(Val(req.category))) = {}
      THEN Some(ResErrors(400, {"category"}, "updateProduct"))
    ELSE None

\* req.body.images when it is an array
BodyImages(req) == IF FlatGiven(req) THEN Val(req.images) ELSE <<>>

\* the reconciliation without its fallback to the stored list: product.images
\* is always assigned what the request produced
updateProductImages_noFallback(req, product, n) ==
    LET up == ProcessFiles(FilesOf(req), n)
        flat == IF Len(BodyImages(req)) > 0
                  THEN ProcessFlat(BodyImages(req), up.n)
                  ELSE [urls |-> up.urls \o KeepUrls(req), n |-> up.n]
    IN  flat

\* updateProduct's image reconciliation on the loaded document `product`:
\* the value product.images has before save(), and the uploads made
updateProductImages(req, product, n) ==
    LET up == ProcessFiles(FilesOf(req), n)
        fromForm == up.urls \o KeepUrls(req)
        kept == IF Len(fromForm) = 0 /\ FilesOf(req) = <<>> /\ ~ExistingGiven(req)
                  THEN product.images ELSE fromForm
        flat == IF Len(BodyImages(req)) > 0
                  THEN ProcessFlat(BodyImages(req), up.n)
                  ELSE [urls |-> kept, n |-> up.n]
        assign == FilesOf(req) # <<>> \/ ExistingGiven(req) \/ FlatGiven(req)
                    \/ Len(flat.urls) > 0
    IN  [urls |-> IF assign THEN flat.urls ELSE product.images, n |-> flat.n]

\* the loaded document after the assignments of updateProduct
updateProductAssign(req, product, images) ==
    [id |-> product.id,
     name |-> IF GivenStr(req, req.name) THEN Trim(Val(req.name)) ELSE product.name,
     price |-> IF GivenNum(req, req.price) THEN ParseFloat(Val(req.price)) ELSE product.price,
     category |-> IF GivenStr(req, req.category)
                    THEN Trim(Val(req.category)) ELSE product.category,
     stock |-> IF GivenNum(req, req.stock) THEN ParseInt(Val(req.stock)) ELSE product.stock,
     images |-> images]

\* A save that writes the whole document it holds, whatever it loaded.
ProductSave_wholeDocument(loaded, doc) ==
    IF ~ProductSchemaOk(doc) THEN [out |-> "ValidationError", products |-> products]
    ELSE IF ProductFindById(doc.id) = {}
      THEN [out |-> "DocumentNotFoundError", products |-> products]
    ELSE LET cur == CHOOSE p \in products : p.id = doc.id
         IN  [out |-> "ok", products |-> (products \ {cur}) \cup {doc}]

\* product.save(): only the paths changed since the document was loaded are
\* written, onto the document the collection holds now
ProductSave(loaded, doc) ==
    IF doc = loaded THEN [out |-> "unmodified", products |-> products]
    ELSE IF ~ProductSchemaOk(doc) THEN [out |-> "ValidationError", products |-> products]
    ELSE IF ProductFindById(doc.id) = {}
      THEN [out |-> "DocumentNotFoundError", products |-> products]
    ELSE LET cur == CHOOSE p \in products : p.id = doc.id
             new == [id |-> cur.id,
                     name |-> IF doc.name # loaded.name THEN doc.name ELSE cur.name,
                     price |-> IF doc.price # loaded.price THEN doc.price ELSE cur.price,
                     category |-> IF doc.category # loaded.category
                                    THEN doc.category ELSE cur.category,
                     stock |-> IF doc.stock # loaded.stock THEN doc.stock ELSE cur.stock,
                     images |-> IF doc.images # loaded.images THEN doc.images ELSE cur.images]
         IN  [out |-> "ok", products |-> (products \ {cur}) \cup {new}]

\* updateProduct from the uploads on, for the document loaded as `product`:
\* the response and the collections after it, the catch block included
updateProductPersist(req, product) ==
    LET img == updateProductImages(req, product, uploads)
        saved == ProductSave(product, updateProductAssign(req, product, img.urls))
    IN  [res |-> (IF saved.out \in {"ok", "unmodified"}
                    THEN Res(200, "none", "updateProduct")
                           @@ [data |-> updateProductAssign(req, product, img.urls)]
                    ELSE Res(500, "SERVER_ERROR", "updateProduct"))
                 @@ [calls |-> UploadCalls(FilesOf(req)) + UploadUrlCalls(BodyImages(req))],
         products |-> saved.products,
         uploads |-> img.n,
         media |-> media \cup {CloudPublicId(k) : k \in (uploads + 1)..img.n}]

\* the whole of updateProduct on the present collections
updateProductOutcome(req) ==
    LET r1 == updateProductFind(req)
        r2 == updateProductCategory(req)
        same == [products |-> products, uploads |-> uploads, media |-> media]
    IN  IF IsSome(r1) THEN [res |-> Val(r1) @@ NoCalls] @@ same
        ELSE IF IsSome(r2) THEN [res |-> Val(r2) @@ NoCalls] @@ same
        ELSE updateProductPersist(req, CHOOSE p \in ProductFindById(req.id) : TRUE)

\* the effect of an outcome of updateProduct
updateProductApply(s, o) ==
    /\ products' = o.products
    /\ uploads' = o.uploads
    /\ media' = o.media
    /\ UNCHANGED nextProductId
    /\ Respond(s, o.res)

\* PUT /api/products/:id, run without interruption
updateProduct(s) ==
    /\ At(s, "handler", "updateProduct")
    /\ updateProductApply(s, updateProductOutcome(slots[s].req))
    /\ UNCHANGED <<ui, authVars, catVars>>

\* a loop that the first failed deletion ends
RECURSIVE DestroyedIds_stopAtFailure(_, _, _)
DestroyedIds_stopAtFailure(images, i, fails) ==
    IF i > Len(images) \/ i \in fails THEN {}
    ELSE {PublicIdOf(images[i])} \cup DestroyedIds_stopAtFailure(images, i + 1, fails)

\* the public ids deleteProduct asks the media host to destroy and that it
\* does destroy: req.destroyFails holds the positions whose call fails
RECURSIVE DestroyedIds(_, _, _)
DestroyedIds(images, i, fails) ==
    IF i > Len(images) THEN {}
    ELSE (IF i \in fails THEN {} ELSE {PublicIdOf(images[i])})
           \cup DestroyedIds(images, i + 1, fails)

\* DELETE /api/products/:id
deleteProduct(s) ==
    /\ At(s, "handler", "deleteProduct")
    /\ LET req == slots[s].req
           found == ProductFindById(req.id)
       IN  IF found = {}
             THEN /\ Respond(s, Res(404, "NOT_FOUND", "deleteProduct"))
                  /\ UNCHANGED <<prodVars, mediaVars>>
             ELSE LET product == CHOOSE p \in found : TRUE
                  IN  /\ media' = media \ DestroyedIds(product.images, 1, req.destroyFails)
                      /\ products' = products \ {product}
                      /\ UNCHANGED <<nextProductId, uploads>>
                      /\ Respond(s, Res(200, "none", "deleteProduct"))
    /\ UNCHANGED <<ui, authVars, catVars>>

\* GET /api/products/:id
getProduct(s) ==
    /\ At(s, "handler", "getProduct")
    /\ IF ProductFindById(slots[s].req.id) = {}
         THEN Respond(s, Res(404, "NOT_FOUND", "getProduct"))
         ELSE Respond(s, Res(200, "none", "getProduct"))
    /\ UNCHANGED <<ui, authVars, catVars, prodVars, mediaVars>>

\* ---------------------------------------------------------------- listing
\* req.query of a request that came without a query string
NoQuery == [search |-> None, category |-> None, sortBy |-> None, sortOrder |-> None,
            page |-> None, limit |-> None]
QueryOf(req) == IF "query" \in DOMAIN req THEN req.query ELSE NoQuery

\* the defaults of the destructuring of req.query
DefaultPage == 1
DefaultLimit == 5

\* the characters of the names used, in the order of their codes
Chars == <<"(", ".", "A", "C", "a", "b", "c", "d", "p", "q", "x", "y">>
CharCode(c) == CHOOSE i \in 1..Len(Chars) : Chars[i] = c
Lower(c) == IF c = "A" THEN "a" ELSE IF c = "C" THEN "c" ELSE c

\* the comparison of two strings by the codes of their characters
RECURSIVE StrLess(_, _)
StrLess(x, y) ==
    IF y = <<>> THEN FALSE
    ELSE IF x = <<>> THEN TRUE
    ELSE IF Head(x) = Head(y) THEN StrLess(Tail(x), Tail(y))
    ELSE CharCode(Head(x)) < CharCode(Head(y))

\* { $regex: search, $options: 'i' }: the text is a regular expression, in
\* which "." stands for any character and a lone "(" is a syntax error; every
\* other character used here stands for itself, in either case
RegexValid(pattern) == \A i \in 1..Len(pattern) : pattern[i] # "("
RegexMatches(pattern, text) ==
    \E off \in 0..(Len(text) - Len(pattern)) :
        \A i \in 1..Len(pattern) :
            pattern[i] = "." \/ Lower(pattern[i]) = Lower(text[off + i])

\* Product.find(query) / countDocuments(query): the documents the query selects
ProductFind(q) ==
    {p \in products :
        /\ TruthyStr(q.search) => RegexMatches(Val(q.search), p.name)
        /\ (TruthyStr(q.category) /\ Val(q.category) # <<"a", "l", "l">>)
             => p.category = Val(q.category)}

\* sort[sortBy] = sortOrder === 'desc' ? -1 : 1: document x comes before
\* document y; documents without the field (a sortBy that is no stored path)
\* all compare equal
SortBefore(x, y, sortBy, sortOrder) ==
    LET less(u, v) == IF sortBy \in {"price", "stock"} THEN u[sortBy] < v[sortBy]
                      ELSE IF sortBy \in {"name", "category"} THEN StrLess(u[sortBy], v[sortBy])
                      ELSE FALSE
    IN  IF sortOrder = "desc" THEN less(y, x) ELSE less(x, y)

\* the orders find().sort() can return the documents in: the store leaves the
\* order of documents that compare equal open
SortedOrders(docs, sortBy, sortOrder) ==
    {o \in [1..Cardinality(docs) -> docs] :
        /\ \A i, j \in DOMAIN o : i # j => o[i] # o[j]
        /\ \A i, j \in DOMAIN o : i < j => ~SortBefore(o[j], o[i], sortBy, sortOrder)}

\* .skip(skip).limit(limitNum) on an ordered result
SkipLimit(o, skip, limitNum) ==
    SubSeq(o, skip + 1, IF skip + limitNum < Len(o) THEN skip + limitNum ELSE Len(o))

\* Math.ceil(totalItems / limitNum) for limitNum >= 1
CeilDiv(totalItems, limitNum) == (totalItems + limitNum - 1) \div limitNum

\* GET /api/products
getProducts(s) ==
    /\ At(s, "handler", "getProducts")
    /\ LET q == QueryOf(slots[s].req)
           sortBy == IF IsSome(q.sortBy) THEN Val(q.sortBy) ELSE "name"
           sortOrder == IF IsSome(q.sortOrder) THEN Val(q.sortOrder) ELSE "asc"
           pageNum == IF IsSome(q.page) THEN ParseInt(Val(q.page)) \div Unit ELSE DefaultPage
           limitNum == IF IsSome(q.limit) THEN ParseInt(Val(q.limit)) \div Unit
                       ELSE DefaultLimit
           skip == (pageNum - 1) * limitNum
       IN  IF (TruthyStr(q.search) /\ ~RegexValid(Val(q.search))) \/ skip < 0
             THEN Respond(s, Res(500, "SERVER_ERROR", "getProducts"))
             ELSE \E o \in SortedOrders(ProductFind(q), sortBy, sortOrder) :
                    Respond(s, Res(200, "none", "getProducts")
                       @@ [data |-> [products |-> SkipLimit(o, skip, limitNum),
                                     pagination |->
                                       [currentPage |-> pageNum,
                                        totalPages |-> CeilDiv(Cardinality(ProductFind(q)),
                                                               limitNum),
                                        totalItems |-> Cardinality(ProductFind(q)),
                                        itemsPerPage |-> limitNum]]])
    /\ UNCHANGED <<ui, authVars, catVars, prodVars, mediaVars>>

\* ================================================================ auth
NoToken == [kind |-> "none", id |-> 0, key |-> "none", exp |-> 0]
Garbage == [kind |-> "garbage", id |-> 0, key |-> "none", exp |-> 0]
Jwt(id, key, exp) == [kind |-> "jwt", id |-> id, key |-> key, exp |-> exp]

Admin == [id |-> 1, username |-> "admin", password |-> "hash(admin123)",
          name |-> "Admin User", email |-> "admin@example.com"]

\* verification that skips the expiry check
JwtVerifies_ignoreExpiration(tok) ==
    /\ jwtSecret # "unset"
    /\ tok.kind = "jwt"
    /\ tok.key = jwtSecret

\* jwt.verify(token, process.env.JWT_SECRET) returns the payload (does not throw)
JwtVerifies(tok) ==
    /\ jwtSecret # "unset"
    /\ tok.kind = "jwt"
    /\ tok.key = jwtSecret
    /\ now < tok.exp

\* User.findById(id)
UserFindById(id) == {u \in users : u.id = id}

\* protect's verdict on the Authorization header: 0 to call next(), else 401
protectStatus(tok) ==
    IF tok.kind = "none" THEN 401
    ELSE IF ~JwtVerifies(tok) THEN 401
    ELSE IF UserFindById(tok.id) = {} THEN 401
    ELSE 0

\* the protect middleware in front of a protected route
protect(s) ==
    /\ slots[s].pc = "protect"
    /\ IF protectStatus(slots[s].req.tok) = 0
         THEN Goto(s, "handler", [user |-> slots[s].req.tok.id])
         ELSE Respond(s, Res(401, "UNAUTHORIZED", "protect"))
    /\ UNCHANGED <<ui, authVars, catVars, prodVars, mediaVars>>

\* a profile that is the whole stored user document
UserProfile_wholeDocument(user) == user

\* the user object of the login and /me responses
UserProfile(user) ==
    [id |-> user.id, username |-> user.username, name |-> user.name, email |-> user.email]

\* GET /api/auth/me
getMe(s) ==
    /\ At(s, "handler", "getMe")
    /\ IF UserFindById(slots[s].loc.user) = {}
         THEN Respond(s, Res(500, "SERVER_ERROR", "getMe"))
         ELSE \E user \in UserFindById(slots[s].loc.user) :
                Respond(s, Res(200, "none", "getMe") @@ [data |-> UserProfile(user)])
    /\ UNCHANGED <<ui, authVars, catVars, prodVars, mediaVars>>

\* the default token lifetime (JWT_EXPIRE or '24h'), in clock ticks
JwtExpire == 1

\* generateToken: signs with JWT_SECRET, or with a fallback when it is not set
generateToken(userId) ==
    Jwt(userId, IF jwtSecret = "unset" THEN "fallback_secret" ELSE jwtSecret, now + JwtExpire)

\* a value of the parsed login body: absent, a string, a number, or an object
\* holding a query operator ({"$ne": ""})
Absent == [t |-> "absent", v |-> ""]
Str(v) == [t |-> "str", v |-> v]
Num(v) == [t |-> "num", v |-> v]
NotEmptyOperator == [t |-> "op", v |-> "$ne"]

\* !value
Falsy(b) == b.t = "absent" \/ (b.t = "str" /\ b.v = "") \/ (b.t = "num" /\ b.v = "0")

\* User.findOne({ username }): a string or number is compared for equality,
\* an operator object is applied as a query condition
UserFindOne(username) ==
    IF username.t = "op" THEN {u \in users : u.username # ""}
    ELSE {u \in users : u.username = username.v}

\* the salted one-way hash of a password
Hashed(pw) == IF pw = "admin123" THEN "hash(admin123)" ELSE "hash(other)"

\* comparePassword: bcrypt.compare of two strings
comparePassword(entered, stored) == Hashed(entered.v) = stored

LoginRes(status, error, message) ==
    Res(status, error, "login") @@ [message |-> message]

\* login once the user document is found
loginCheck(req, user) ==
    IF req.password.t # "str" THEN LoginRes(500, "SERVER_ERROR", "Server error")
    ELSE IF ~comparePassword(req.password, user.password)
      THEN LoginRes(401, "INVALID_CREDENTIALS", "Invalid username or password")
    ELSE LoginRes(200, "none", "Login successful")
           @@ [data |-> [token |-> generateToken(user.id), user |-> UserProfile(user)]]

\* POST /api/auth/login
login(s) ==
    /\ At(s, "handler", "login")
    /\ LET req == slots[s].req
       IN  IF Falsy(req.username) \/ Falsy(req.password)
             THEN Respond(s, LoginRes(400, "VALIDATION_ERROR",
                                      "Please provide username and password"))
           ELSE IF UserFindOne(req.username) = {}
             THEN Respond(s, LoginRes(401, "INVALID_CREDENTIALS",
                                      "Invalid username or password"))
           ELSE \E user \in UserFindOne(req.username) : Respond(s, loginCheck(req, user))
    /\ UNCHANGED <<ui, authVars, catVars, prodVars, mediaVars>>

\* a logout that rotates the signing key
logout_rotatesSecret(s) ==
    /\ At(s, "handler", "logout")
    /\ Respond(s, Res(200, "none", "logout"))
    /\ jwtSecret' = "rotated"
    /\ UNCHANGED <<ui, users, now, catVars, prodVars, mediaVars>>

\* POST /api/auth/logout
logout(s) ==
    /\ At(s, "handler", "logout")
    /\ Respond(s, Res(200, "none", "logout"))
    /\ UNCHANGED <<ui, authVars, catVars, prodVars, mediaVars>>

\* the clock advances
Tick ==
    /\ now < MaxTime
    /\ now' = now + 1
    /\ UNCHANGED <<ui, users, jwtSecret, catVars, prodVars, mediaVars, slots>>

\* ================================================================ requests
ProtectedOps == {"getProducts", "getProduct", "createProduct", "updateProduct", "deleteProduct",
                 "getMe", "logout"}

CategoryReq(op, id, name) == [op |-> op, id |-> id, name |-> name]

ProductReq(op, tok, id, ctype, name, price, category, stock, files, existing, images) ==
    [op |-> op, tok |-> tok, id |-> id, ctype |-> ctype, name |-> name, price |-> price,
     category |-> category, stock |-> stock, files |-> files,
     existingImages |-> existing, images |-> images, destroyFails |-> {}]

\* a request with no body: GET and DELETE on a product, /me, /logout
BareReq(op, tok, id, fails) ==
    [op |-> op, tok |-> tok, id |-> id, ctype |-> "json", name |-> None, price |-> None,
     category |-> None, stock |-> None, files |-> <<>>, existingImages |-> None,
     images |-> None, destroyFails |-> fails]

\* uploads the request makes if it reaches its image processing
NeededUploads(req) ==
    IF req.op = "createProduct" THEN ProcessFiles(FilesOf(req), 0).n
    ELSE IF req.op = "updateProduct"
      THEN ProcessFiles(FilesOf(req), 0).n + ProcessFlat(BodyImages(req), 0).n
    ELSE 0

Reserved(s) ==
    IF slots[s].pc \in {"idle", "done"} THEN 0 ELSE NeededUploads(slots[s].req)

\* documents and media objects are numbered from a bounded supply
WithinBounds(req) ==
    /\ req.op = "createCategory" =>
           nextCategoryId + InFlight("createCategory") <= MaxCategories
    /\ req.op = "createProduct" =>
           nextProductId + InFlight("createProduct") <= MaxProducts
    /\ req.op \in {"createProduct", "updateProduct"} =>
           uploads + Reserved("r1") + Reserved("r2") + NeededUploads(req) <= MaxUploads

\* the request reaches the server: a protected route starts at protect
Receive(s, req) ==
    /\ slots[s].pc = "idle"
    /\ WithinBounds(req)
    /\ slots' = [slots EXCEPT ![s] =
                   [pc |-> IF req.op \in ProtectedOps THEN "protect" ELSE "handler",
                    req |-> req, loc |-> [user |-> 0]]]
    /\ UNCHANGED <<ui, authVars, catVars, prodVars, mediaVars>>

\* the response reaches the client
Deliver(s) ==
    /\ slots[s].pc = "done"
    /\ slots' = [slots EXCEPT ![s] = Idle]
    /\ UNCHANGED <<ui, authVars, catVars, prodVars, mediaVars>>

\* the ProductManagement component when it mounts: its useState initial values
\* (a blank form field is None), and no FileReader at work
NoFormData == [name |-> None, price |-> None, category |-> None, stock |-> None]
UiInit ==
    [products |-> {}, isModalOpen |-> FALSE, editingProduct |-> None,
     formData |-> NoFormData, selectedImages |-> <<>>, imagePreviews |-> <<>>,
     readers |-> <<>>,
     searchTerm |-> <<>>, selectedCategory |-> <<"a", "l", "l">>,
     sortBy |-> "name", sortOrder |-> "asc",
     currentPage |-> 1, totalPages |-> 1, totalItems |-> 0]

\* the server after start-up with the demo user provisioned and an empty store
InitStore ==
    /\ ui = UiInit
    /\ users = {Admin}
    /\ now = 0
    /\ categories = {}
    /\ nextCategoryId = 1
    /\ products = {}
    /\ nextProductId = 1
    /\ uploads = 0
    /\ media = {}
    /\ slots = [s \in Slots |-> Idle]

\* ================================================================ inputs
GoodToken == Jwt(1, "env_secret", MaxTime + 1)

NameAb == <<"a", "b">>
NameCd == <<"c", "d">>
CategoryNameInputs ==
    {None, Some(<<"a">>), Some(NameAb), Some(<<" ", "a", "b">>), Some(NameCd)}

CategoryIds == 1..MaxCategories
ProductIds == 1..MaxProducts

CategoryRequests ==
    {CategoryReq("createCategory", 0, n) : n \in CategoryNameInputs}
    \cup {CategoryReq("updateCategory", i, n) : i \in CategoryIds, n \in CategoryNameInputs}
    \cup {CategoryReq("deleteCategory", i, None) : i \in CategoryIds}

GoodFile == [image |-> TRUE, ok |-> TRUE]
FailingFile == [image |-> TRUE, ok |-> FALSE]
TextFile == [image |-> FALSE, ok |-> TRUE]

ProductName == <<"p", "q">>

\* product requests of the store-level specification: few image shapes
StoreProductRequests ==
    {ProductReq("createProduct", GoodToken, 0, "multipart", Some(ProductName), Some(pr),
                Some(c), Some(0), f, None, None) :
        pr \in {0, Unit}, c \in {NameAb, <<"c", "d", " ">>}, f \in {<<>>, <<GoodFile>>}}
    \cup {ProductReq("updateProduct", GoodToken, i, "json", None, pr, c, None, <<>>, None, None) :
        i \in ProductIds, pr \in {None, Some(2 * Unit)}, c \in {None, Some(NameAb), Some(NameCd)}}
    \cup {BareReq("deleteProduct", GoodToken, i, fails) : i \in ProductIds, fails \in {{}, {1}}}
    \cup {BareReq("getProduct", GoodToken, i, {}) : i \in ProductIds}

\* ================================================================ Spec
\* requests handled one at a time, each handler run without interruption
Init == InitStore /\ jwtSecret = "env_secret"

Next ==
    \/ \E req \in CategoryRequests \cup StoreProductRequests : Receive("r1", req)
    \/ protect("r1")
    \/ createCategory("r1")
    \/ updateCategory("r1")
    \/ deleteCategory("r1")
    \/ createProduct("r1")
    \/ updateProduct("r1")
    \/ deleteProduct("r1")
    \/ getProduct("r1")
    \/ Deliver("r1")

Spec == Init /\ [][Next]_vars

\* ---------------------------------------------------------------------------
\* Requests handled one at a time, with no category renamed
\* ---------------------------------------------------------------------------

\* PUT /api/categories/:id that leaves every stored name as it is: refused,
\* or given the name the category already has
updateCategoryKeepingName(s) == updateCategory(s) /\ categories' = categories

NextNoRename ==
    \/ \E req \in CategoryRequests \cup StoreProductRequests : Receive("r1", req)
    \/ protect("r1")
    \/ createCategory("r1")
    \/ updateCategoryKeepingName("r1")
    \/ deleteCategory("r1")
    \/ createProduct("r1")
    \/ updateProduct("r1")
    \/ deleteProduct("r1")
    \/ getProduct("r1")
    \/ Deliver("r1")

SpecNoRename == Init /\ [][NextNoRename]_vars

\* ================================================================ SpecImages
\* The image reconciliation of createProduct and updateProduct: every shape
\* of files, existingImages and images, on a store that holds one category.
FileKinds == {GoodFile, FailingFile, TextFile}
FileSeqs == {<<>>} \cup {<<f>> : f \in FileKinds} \cup {<<f, g>> : f \in FileKinds, g \in FileKinds}

KeepPool == {CloudUrl(1), CloudUrl(2), HttpUrl}
KeepLists == {<<>>} \cup {<<u>> : u \in KeepPool} \cup {<<u, v>> : u \in KeepPool, v \in KeepPool}

Existing(kind, urls) == Some([kind |-> kind, urls |-> urls])
ExistingInputs ==
    {None, Existing("empty", <<>>), Existing("invalid", <<>>), Existing("nonarray", <<>>)}
    \cup {Existing("array", k) : k \in KeepLists}

FlatEntries == {[url |-> CloudUrl(1), ok |-> TRUE], [url |-> HttpUrl, ok |-> TRUE],
                [url |-> HttpUrl, ok |-> FALSE], [url |-> PlainText, ok |-> TRUE]}
FlatInputs == {None, Some(<<>>)} \cup {Some(<<e>>) : e \in FlatEntries}

ImageRequests ==
    {ProductReq("createProduct", GoodToken, 0, "multipart", Some(ProductName), Some(Unit),
                Some(NameAb), Some(0), f, e, None) :
        f \in FileSeqs, e \in {None} \cup {Existing("array", k) : k \in {<<>>, <<CloudUrl(1)>>}}}
    \cup {ProductReq("updateProduct", GoodToken, i, "multipart", None, None, None, None,
                     f, e, None) :
        i \in ProductIds, f \in FileSeqs, e \in ExistingInputs}
    \cup {ProductReq("updateProduct", GoodToken, i, "json", None, None, None, None,
                     <<>>, e, fl) :
        i \in ProductIds, e \in ExistingInputs, fl \in FlatInputs}

\* updates that supply scalar fields only
ScalarRequests ==
    {ProductReq("updateProduct", GoodToken, i, ct, n, pr, c, st, <<>>, None, None) :
        i \in ProductIds, ct \in {"multipart", "json"},
        n \in {None, Some(<<"p">>), Some(<<"x", "y">>)},
        pr \in {None, Some(0), Some(2 * Unit)},
        c \in {None, Some(NameAb), Some(NameCd)},
        st \in {None, Some(0 - Unit), Some(3 * Unit)}}

InitImages ==
    /\ ui = UiInit
    /\ users = {Admin}
    /\ jwtSecret = "env_secret"
    /\ now = 0
    /\ categories = {[id |-> 1, name |-> NameAb]}
    /\ nextCategoryId = 2
    /\ products = {}
    /\ nextProductId = 1
    /\ uploads = 0
    /\ media = {}
    /\ slots = [s \in Slots |-> Idle]

NextImages ==
    \/ \E req \in ImageRequests \cup ScalarRequests : Receive("r1", req)
    \/ protect("r1")
    \/ createProduct("r1")
    \/ updateProduct("r1")
    \/ Deliver("r1")

SpecImages == InitImages /\ [][NextImages]_vars

\* ================================================================ SpecFields
\* createProduct, updateProduct and deleteProduct under every shape of the
\* scalar fields (absent, empty, blank, too short, zero, below the schema's
\* minimum, negative, fractional) and under keep lists up to and beyond the
\* schema's limit, on a store that holds one category.
Repeat(u, k) == [i \in 1..k |-> u]

FieldNames == {None, Some(<<>>), Some(<<"p">>), Some(ProductName), Some(<<" ", "x", "y", " ">>)}
FieldPrices == {None, Some(0), Some(PriceMin \div 2), Some(Unit), Some(2 * Unit)}
FieldCategories == {None, Some(<<>>), Some(<<" ">>), Some(NameAb), Some(<<"a", "b", " ">>),
                    Some(NameCd)}
FieldStocks == {None, Some(0 - Unit), Some(0), Some(Unit + Unit \div 2)}

FieldRequests ==
    {ProductReq("createProduct", GoodToken, 0, "multipart", n, pr, c, st, <<GoodFile>>,
                None, None) :
        n \in FieldNames, pr \in FieldPrices \ {Some(2 * Unit)}, c \in FieldCategories,
        st \in FieldStocks}
    \cup {ProductReq("createProduct", GoodToken, 0, "json", n, pr, Some(NameAb), st, <<>>,
                     None, None) :
            n \in {Some(<<>>), Some(ProductName)}, pr \in {Some(0), Some(Unit)},
            st \in {None, Some(0)}}
    \cup {ProductReq("updateProduct", GoodToken, i, ct, n, pr, c, st, f, None, None) :
            i \in ProductIds, ct \in {"multipart", "json"},
            n \in FieldNames \ {Some(ProductName)}, pr \in FieldPrices \ {Some(Unit)},
            c \in FieldCategories \ {Some(<<" ">>), Some(<<"a", "b", " ">>)},
            st \in FieldStocks, f \in {<<>>, <<FailingFile>>}}
    \cup {ProductReq("updateProduct", GoodToken, MaxProducts + 1, "multipart", None, None, c,
                     None, <<FailingFile>>, None, None) : c \in {None, Some(NameCd)}}
    \cup {ProductReq(op, GoodToken, 1, "multipart", Some(ProductName), Some(Unit),
                     Some(NameAb), Some(0), <<>>, Existing("array", Repeat(CloudUrl(1), k)),
                     None) :
            op \in {"createProduct", "updateProduct"}, k \in {ImagesMax, ImagesMax + 1}}

NextFields ==
    \/ \E req \in FieldRequests : Receive("r1", req)
    \/ protect("r1")
    \/ createProduct("r1")
    \/ updateProduct("r1")
    \/ Deliver("r1")

SpecFields == InitImages /\ [][NextFields]_vars

\* ================================================================ SpecKeep
\* What createProduct and updateProduct store as images and what deleteProduct
\* asks the media host to destroy: files that upload, fail or are no image,
\* keep lists and flat lists that name the media host, another host, and
\* another host with the media host's name in the path.
KeepFileSeqs == {<<>>, <<FailingFile>>, <<TextFile, GoodFile>>,
                 <<GoodFile, FailingFile, GoodFile>>}
KeepExisting ==
    {None, Existing("array", <<HttpUrl, CloudUrl(2), CloudUrl(1)>>),
     Existing("array", <<EvilUrl>>), Existing("array", <<CloudUrl(1), EvilUrl>>)}
KeepFlat == {Some(<<[url |-> EvilUrl, ok |-> TRUE]>>),
             Some(<<[url |-> HttpUrl, ok |-> TRUE], [url |-> CloudUrl(1), ok |-> TRUE]>>)}

KeepRequests ==
    {ProductReq("createProduct", GoodToken, 0, "multipart", Some(ProductName), Some(Unit),
                Some(NameAb), Some(0), f, e, None) : f \in KeepFileSeqs, e \in KeepExisting}
    \cup {ProductReq("updateProduct", GoodToken, i, "multipart", None, None, None, None,
                     f, e, None) : i \in ProductIds, f \in KeepFileSeqs, e \in KeepExisting}
    \cup {ProductReq("updateProduct", GoodToken, i, "json", None, None, None, None,
                     <<>>, None, fl) : i \in ProductIds, fl \in KeepFlat}
    \cup {BareReq("deleteProduct", GoodToken, i, fails) :
            i \in 1..(MaxProducts + 1), fails \in SUBSET {1, 2}}

NextKeep ==
    \/ \E req \in KeepRequests : Receive("r1", req)
    \/ protect("r1")
    \/ createProduct("r1")
    \/ updateProduct("r1")
    \/ deleteProduct("r1")
    \/ Deliver("r1")

SpecKeep == InitImages /\ [][NextKeep]_vars

\* ================================================================ SpecList
\* getProducts on a store that holds any part of a catalogue of three
\* products, whose orders by name, price, stock and category all differ,
\* under every query: searches in either case, with a "." and with a "(",
\* category filters, known and unknown sortBy and sortOrder, pages up to and
\* beyond the last one.
Catalogue ==
    {[id |-> 1, name |-> <<"a", "b">>, price |-> 3 * Unit, category |-> NameAb,
      stock |-> 0, images |-> <<>>],
     [id |-> 2, name |-> <<"A", "c">>, price |-> Unit, category |-> NameCd,
      stock |-> 0, images |-> <<>>],
     [id |-> 3, name |-> <<"b", ".", "a">>, price |-> 2 * Unit, category |-> NameAb,
      stock |-> 5 * Unit, images |-> <<>>]}

ListReq(search, category, sortBy, sortOrder, page, limit) ==
    BareReq("getProducts", GoodToken, 0, {})
      @@ [query |-> [search |-> search, category |-> category, sortBy |-> sortBy,
                     sortOrder |-> sortOrder, page |-> page, limit |-> limit]]

ListRequests ==
    {ListReq(se, c, sb, so, pg, li) :
        se \in {None, Some(<<"a", "C">>), Some(<<"b">>), Some(<<".">>), Some(<<"(">>)},
        c \in {None, Some(<<"a", "l", "l">>), Some(NameAb)},
        sb \in {None, Some("name"), Some("price"), Some("stock"), Some("category"), Some("id")},
        so \in {None, Some("asc"), Some("desc"), Some("up")},
        pg \in {None, Some(0), Some(2 * Unit), Some(3 * Unit)},
        li \in {None, Some(Unit), Some(2 * Unit)}}

InitList ==
    /\ ui = UiInit
    /\ users = {Admin}
    /\ jwtSecret = "env_secret"
    /\ now = 0
    /\ categories = {[id |-> 1, name |-> NameAb], [id |-> 2, name |-> NameCd]}
    /\ nextCategoryId = 3
    /\ products \in {c \in SUBSET Catalogue : \A p \in c : p.id <= Cardinality(c)}
    /\ nextProductId = Cardinality(products) + 1
    /\ uploads = 0
    /\ media = {}
    /\ slots = [s \in Slots |-> Idle]

NextList ==
    \/ \E req \in ListRequests : Receive("r1", req)
    \/ protect("r1")
    \/ getProducts("r1")
    \/ Deliver("r1")

SpecList == InitList /\ [][NextList]_vars

\* ---------------------------------------------------------------- C5
\* C5: deleteCategory on a stored category whose name equals the category of a
\* stored product answers 400 CATEGORY_IN_USE and changes no category and no product.
C5_InUseRefused ==
    [][\A s \in Slots :
         (/\ At(s, "handler", "deleteCategory")
          /\ slots'[s].pc = "done"
          /\ \E c \in categories : /\ c.id = slots[s].req.id
                                   /\ \E p \in products : p.category = c.name)
         => /\ slots'[s].res.status = 400
            /\ slots'[s].res.error = "CATEGORY_IN_USE"
            /\ categories' = categories
            /\ products' = products]_vars

C5_Witness ==
    \E s \in Slots :
        /\ slots[s].pc = "done"
        /\ slots[s].req.op = "deleteCategory"
        /\ slots[s].res.status = 400
        /\ slots[s].res.error = "CATEGORY_IN_USE"
        /\ \E c \in categories : /\ c.id = slots[s].req.id
                                 /\ \E p \in products : p.category = c.name

\* ================================================================ SpecAuth
\* Every protected route under every kind of Authorization header, with
\* JWT_SECRET set or unset and a clock that passes the tokens' expiry.
TokenInputs ==
    {NoToken, Garbage}
    \cup {Jwt(id, key, exp) : id \in {1, 2}, key \in {"env_secret", "forged"},
                             exp \in {1, MaxTime + 1}}

AuthRequests ==
    {CategoryReq("createCategory", 0, Some(NameAb))}
    \cup {ProductReq("createProduct", tok, 0, "multipart", Some(ProductName), Some(Unit),
                     Some(NameAb), Some(0), <<GoodFile>>, None, None) : tok \in TokenInputs}
    \cup {ProductReq("updateProduct", tok, 1, "json", None, Some(2 * Unit), None, None,
                     <<>>, None, None) : tok \in TokenInputs}
    \cup {BareReq(op, tok, 1, {}) :
            op \in {"deleteProduct", "getProduct", "getProducts", "getMe", "logout"},
            tok \in TokenInputs}

InitAuth == InitStore /\ jwtSecret \in {"unset", "env_secret"}

NextAuth ==
    \/ \E req \in AuthRequests : Receive("r1", req)
    \/ protect("r1")
    \/ createCategory("r1")
    \/ createProduct("r1")
    \/ updateProduct("r1")
    \/ deleteProduct("r1")
    \/ getProduct("r1")
    \/ getProducts("r1")
    \/ getMe("r1")
    \/ logout("r1")
    \/ Deliver("r1")
    \/ Tick

SpecAuth == InitAuth /\ [][NextAuth]_vars

\* ---------------------------------------------------------------------------
\* Logging in, then calling protected routes with the token received
\* ---------------------------------------------------------------------------

LoginReq(username, password) == [op |-> "login", username |-> username, password |-> password]

LoginUsernames ==
    {Absent, Str(""), Str("admin"), Str("Admin"), Str("nobody"), Num("0"), Num("1"),
     NotEmptyOperator}

LoginPasswords == {Absent, Str(""), Str("admin123"), Str("wrong"), Num("0"), Num("1")}

LoginRequests == {LoginReq(u, p) : u \in LoginUsernames, p \in LoginPasswords}

SessionRequests ==
    {BareReq(op, tok, 1, {}) : op \in {"getMe", "logout"}, tok \in {NoToken, GoodToken}}

\* the client keeps the token of a successful login response and sends it as
\* the Authorization header of its next request
requestWithToken(s) ==
    /\ slots[s].pc = "done"
    /\ slots[s].req.op = "login"
    /\ slots[s].res.status = 200
    /\ \E op \in {"getMe", "logout"} :
          slots' = [slots EXCEPT ![s] =
                      [pc |-> "protect",
                       req |-> BareReq(op, slots[s].res.data.token, 1, {})
                                 @@ [issuedBy |-> "login"],
                       loc |-> [user |-> 0]]]
    /\ UNCHANGED <<ui, authVars, catVars, prodVars, mediaVars>>

NextLogin ==
    \/ \E req \in LoginRequests \cup SessionRequests : Receive("r1", req)
    \/ login("r1")
    \/ requestWithToken("r1")
    \/ protect("r1")
    \/ getMe("r1")
    \/ logout("r1")
    \/ Deliver("r1")
    \/ Tick

SpecLogin == InitAuth /\ [][NextLogin]_vars

\* ================================================================ SpecConc
\* Two requests in flight. A handler gives up control at each awaited call to
\* the store, so it runs as one step per awaited call; the step is named after
\* the call it ends with, and loc carries the handler's local variables.
Locals(s, doc, cat) == [user |-> slots[s].loc.user, doc |-> doc, cat |-> cat]
NoDoc == [id |-> 0]

createCategory_findOne(s) ==
    /\ At(s, "handler", "createCategory")
    /\ LET r == createCategoryCheck(slots[s].req)
       IN  IF IsSome(r) THEN Respond(s, Val(r)) ELSE Goto(s, "create", Locals(s, NoDoc, 0))
    /\ UNCHANGED <<ui, authVars, catVars, prodVars, mediaVars>>

createCategory_create(s) ==
    /\ At(s, "create", "createCategory")
    /\ createCategoryInsert(s)
    /\ UNCHANGED <<ui, authVars, prodVars, mediaVars>>

updateCategory_findById(s) ==
    /\ At(s, "handler", "updateCategory")
    /\ LET req == slots[s].req
           r == updateCategoryFind(req)
       IN  IF IsSome(r) THEN Respond(s, Val(r))
           ELSE Goto(s, "findOne", Locals(s, CHOOSE c \in CategoryFindById(req.id) : TRUE, 0))
    /\ UNCHANGED <<ui, authVars, catVars, prodVars, mediaVars>>

updateCategory_findOne(s) ==
    /\ At(s, "findOne", "updateCategory")
    /\ LET r == updateCategoryCheck(slots[s].req)
       IN  IF IsSome(r) THEN Respond(s, Val(r)) ELSE Goto(s, "save", slots[s].loc)
    /\ UNCHANGED <<ui, authVars, catVars, prodVars, mediaVars>>

updateCategory_save(s) ==
    /\ At(s, "save", "updateCategory")
    /\ updateCategorySave(s, slots[s].loc.doc)
    /\ UNCHANGED <<ui, authVars, prodVars, mediaVars>>

deleteCategory_findById(s) ==
    /\ At(s, "handler", "deleteCategory")
    /\ LET found == CategoryFindById(slots[s].req.id)
       IN  IF found = {} THEN Respond(s, Res(404, "NOT_FOUND", "deleteCategory"))
           ELSE Goto(s, "findOne", Locals(s, CHOOSE c \in found : TRUE, 0))
    /\ UNCHANGED <<ui, authVars, catVars, prodVars, mediaVars>>

deleteCategory_findOne(s) ==
    /\ At(s, "findOne", "deleteCategory")
    /\ LET r == deleteCategoryCheck(slots[s].loc.doc)
       IN  IF IsSome(r) THEN Respond(s, Val(r))
           ELSE Goto(s, "findByIdAndDelete", slots[s].loc)
    /\ UNCHANGED <<ui, authVars, catVars, prodVars, mediaVars>>

deleteCategory_findByIdAndDelete(s) ==
    /\ At(s, "findByIdAndDelete", "deleteCategory")
    /\ deleteCategoryRemove(s)
    /\ UNCHANGED <<ui, authVars, prodVars, mediaVars>>

createProduct_findOne(s) ==
    /\ At(s, "handler", "createProduct")
    /\ LET req == slots[s].req
           r == createProductCheck(req)
       IN  IF IsSome(r) THEN Respond(s, Val(r) @@ NoCalls)
           ELSE Goto(s, "create",
                     Locals(s, NoDoc,
                            (CHOOSE c \in CategoryFindOne(Trim(Val(req.category))) : TRUE).id))
    /\ UNCHANGED <<ui, authVars, catVars, prodVars, mediaVars>>

createProduct_create(s) ==
    /\ At(s, "create", "createProduct")
    /\ createProductPersist(s)
    /\ UNCHANGED <<ui, authVars, catVars>>

updateProduct_findById(s) ==
    /\ At(s, "handler", "updateProduct")
    /\ LET req == slots[s].req
           r == updateProductFind(req)
       IN  IF IsSome(r) THEN Respond(s, Val(r) @@ NoCalls)
           ELSE Goto(s, "findOne", Locals(s, CHOOSE p \in ProductFindById(req.id) : TRUE, 0))
    /\ UNCHANGED <<ui, authVars, catVars, prodVars, mediaVars>>

updateProduct_findOne(s) ==
    /\ At(s, "findOne", "updateProduct")
    /\ LET req == slots[s].req
           r == updateProductCategory(req)
           found == IF GivenStr(req, req.category)
                      THEN CategoryFindOne(Trim(Val(req.category))) ELSE {}
       IN  IF IsSome(r) THEN Respond(s, Val(r) @@ NoCalls)
           ELSE Goto(s, "save",
                     Locals(s, slots[s].loc.doc,
                            IF found = {} THEN 0 ELSE (CHOOSE c \in found : TRUE).id))
    /\ UNCHANGED <<ui, authVars, catVars, prodVars, mediaVars>>

updateProduct_save(s) ==
    /\ At(s, "save", "updateProduct")
    /\ updateProductApply(s, updateProductPersist(slots[s].req, slots[s].loc.doc))
    /\ UNCHANGED <<ui, authVars, catVars>>

ConcRequests ==
    {CategoryReq("createCategory", 0, Some(n)) : n \in {NameAb, NameCd, <<" ", "a", "b">>}}
    \cup {CategoryReq("updateCategory", i, Some(n)) : i \in CategoryIds, n \in {NameAb, NameCd}}
    \cup {CategoryReq("deleteCategory", i, None) : i \in CategoryIds}
    \cup {ProductReq("createProduct", GoodToken, 0, "json", Some(ProductName), Some(Unit),
                     Some(NameAb), Some(Unit), <<>>, None, None)}
    \cup {ProductReq("updateProduct", GoodToken, i, "json", None, None, Some(c), None,
                     <<>>, None, None) : i \in ProductIds, c \in {NameAb, NameCd}}

Step(s) ==
    \/ \E req \in ConcRequests : Receive(s, req)
    \/ protect(s)
    \/ createCategory_findOne(s)
    \/ createCategory_create(s)
    \/ updateCategory_findById(s)
    \/ updateCategory_findOne(s)
    \/ updateCategory_save(s)
    \/ deleteCategory_findById(s)
    \/ deleteCategory_findOne(s)
    \/ deleteCategory_findByIdAndDelete(s)
    \/ createProduct_findOne(s)
    \/ createProduct_create(s)
    \/ updateProduct_findById(s)
    \/ updateProduct_findOne(s)
    \/ updateProduct_save(s)
    \/ Deliver(s)

NextConc == \E s \in Slots : Step(s)

SpecConc == Init /\ [][NextConc]_vars

\* ================================================================ SpecRace
\* Two clients each send one update of the one stored product, each request
\* stopping at every awaited call, in every interleaving; the fields they
\* supply hold the stored value or another one.
RaceProduct ==
    [id |-> 1, name |-> ProductName, price |-> Unit, category |-> NameAb, stock |-> Unit,
     images |-> <<CloudUrl(1)>>]

RaceRequests ==
    {ProductReq("updateProduct", GoodToken, 1, "multipart", None, pr, None, st,
                <<>>, None, None) :
        pr \in {None, Some(Unit), Some(2 * Unit), Some(3 * Unit)},
        st \in {None, Some(2 * Unit)}}

InitRace ==
    /\ ui = UiInit
    /\ users = {Admin}
    /\ jwtSecret = "env_secret"
    /\ now = 0
    /\ categories = {[id |-> 1, name |-> NameAb]}
    /\ nextCategoryId = 2
    /\ products = {RaceProduct}
    /\ nextProductId = 2
    /\ uploads = 1
    /\ media = {CloudPublicId(1)}
    /\ slots = [s \in Slots |-> Idle]

NextRace ==
    \E s \in Slots :
        \/ \E req \in RaceRequests : Receive(s, req)
        \/ protect(s)
        \/ updateProduct_findById(s)
        \/ updateProduct_findOne(s)
        \/ updateProduct_save(s)

SpecRace == InitRace /\ [][NextRace]_vars

\* ================================================================ SpecForm
\* The product form of the ProductManagement component in front of the
\* server: the user opens the form, edits fields, selects and removes images
\* and saves; the component's requests travel through a slot, tagged with the
\* function that awaits the response and the values its closure holds.
MaxSelected == 1        \* files held by the form's file list at a time

FormFileSeqs ==
    {<<f>> : f \in {GoodFile, FailingFile, TextFile}} \cup {<<GoodFile, TextFile>>}

FormValues ==
    [name |-> {Some(ProductName)}, price |-> {Some(Unit)},
     category |-> {Some(NameAb)}, stock |-> {Some(0)}]

RemoveAt(seq, i) == [k \in 1..(Len(seq) - 1) |-> IF k < i THEN seq[k] ELSE seq[k + 1]]

UiUnchangedServer == UNCHANGED <<authVars, catVars, prodVars, mediaVars>>

\* const itemsPerPage
ItemsPerPage == 5

\* the query string loadProducts builds from the state of a render
UrlQuery(view) ==
    [search |-> IF view.searchTerm # <<>> THEN Some(view.searchTerm) ELSE None,
     category |-> IF view.selectedCategory \notin {<<>>, <<"a", "l", "l">>}
                    THEN Some(view.selectedCategory) ELSE None,
     sortBy |-> Some(view.sortBy), sortOrder |-> Some(view.sortOrder),
     page |-> Some(view.currentPage * Unit), limit |-> Some(ItemsPerPage * Unit)]

\* the GET request of loadProducts called in the render whose state is view
LoadRequest(view) ==
    [pc |-> "protect",
     req |-> BareReq("getProducts", GoodToken, 0, {})
               @@ [call |-> [by |-> "loadProducts", editingProduct |-> None],
                   query |-> UrlQuery(view)],
     loc |-> [user |-> 0]]

\* loadProducts up to its axios.get
loadProducts(s) ==
    /\ slots[s].pc = "idle"
    /\ slots' = [slots EXCEPT ![s] = LoadRequest(ui)]
    /\ UNCHANGED ui
    /\ UiUnchangedServer

\* loadProducts from the response on
loadProductsDone(s) ==
    /\ slots[s].pc = "done"
    /\ slots[s].req.call.by = "loadProducts"
    /\ ui' = IF slots[s].res.status = 200
               THEN [ui EXCEPT
                       !.products = Range(slots[s].res.data.products),
                       !.totalPages = slots[s].res.data.pagination.totalPages,
                       !.totalItems = slots[s].res.data.pagination.totalItems]
               ELSE ui
    /\ slots' = [slots EXCEPT ![s] = Idle]
    /\ UiUnchangedServer

handleAdd ==
    /\ ~ui.isModalOpen
    /\ ui' = [ui EXCEPT !.editingProduct = None, !.formData = NoFormData,
                        !.selectedImages = <<>>, !.imagePreviews = <<>>,
                        !.isModalOpen = TRUE]
    /\ UNCHANGED slots
    /\ UiUnchangedServer

handleEdit(product) ==
    /\ ~ui.isModalOpen
    /\ product \in ui.products
    /\ ui' = [ui EXCEPT
                !.editingProduct = Some(product),
                !.formData = [name |-> Some(product.name), price |-> Some(product.price),
                              category |-> Some(product.category),
                              stock |-> Some(product.stock)],
                !.selectedImages = <<>>,
                !.imagePreviews = [i \in 1..Len(product.images) |->
                                     [type |-> "url", data |-> product.images[i]]],
                !.isModalOpen = TRUE]
    /\ UNCHANGED slots
    /\ UiUnchangedServer

\* the onChange of a form field: setFormData({ ...formData, [field]: value })
setFormData(field, value) ==
    /\ ui.isModalOpen
    /\ ui' = [ui EXCEPT !.formData[field] = value]
    /\ UNCHANGED slots
    /\ UiUnchangedServer

\* handleImageChange: the image files join selectedImages and a FileReader is
\* started for each of them
handleImageChangeWithin(files, max) ==
    /\ ui.isModalOpen
    /\ LET validFiles == SelectSeq(files, LAMBDA f : f.image)
       IN  /\ Len(ui.selectedImages) + Len(validFiles) <= max
           /\ Len(ui.readers) + Len(validFiles) <= max
           /\ ui' = [ui EXCEPT !.selectedImages = @ \o validFiles,
                               !.readers = @ \o validFiles]
    /\ UNCHANGED slots
    /\ UiUnchangedServer

handleImageChange(files) == handleImageChangeWithin(files, MaxSelected)

\* reader.onload of the i-th FileReader still at work
readerOnload(i) ==
    /\ i \in 1..Len(ui.readers)
    /\ ui' = [ui EXCEPT !.imagePreviews = Append(@, [type |-> "file", data |-> ui.readers[i]]),
                        !.readers = RemoveAt(@, i)]
    /\ UNCHANGED slots
    /\ UiUnchangedServer

\* handleRemoveImage(index), the previews counted from 1
handleRemoveImage(index) ==
    /\ ui.isModalOpen
    /\ index \in 1..Len(ui.imagePreviews)
    /\ LET fileIndex == Cardinality({k \in 1..(index - 1) : ui.imagePreviews[k].type = "file"})
           isFile == ui.imagePreviews[index].type = "file"
       IN  ui' = [ui EXCEPT
                    !.selectedImages = IF isFile /\ fileIndex + 1 <= Len(@)
                                         THEN RemoveAt(@, fileIndex + 1) ELSE @,
                    !.imagePreviews = RemoveAt(@, index)]
    /\ UNCHANGED slots
    /\ UiUnchangedServer

\* the Cancel button of the form
cancel ==
    /\ ui.isModalOpen
    /\ ui' = [ui EXCEPT !.isModalOpen = FALSE, !.formData = NoFormData,
                        !.selectedImages = <<>>, !.imagePreviews = <<>>,
                        !.editingProduct = None]
    /\ UNCHANGED slots
    /\ UiUnchangedServer

\* the URLs of the previews of type 'url', in order
existingImageUrls ==
    LET urlPreviews == SelectSeq(ui.imagePreviews, LAMBDA p : p.type = "url")
    IN  [i \in 1..Len(urlPreviews) |-> urlPreviews[i].data]

\* the FormData handleSave builds and the route it sends it to
FormRequest ==
    LET editing == IsSome(ui.editingProduct)
    IN  ProductReq(IF editing THEN "updateProduct" ELSE "createProduct", GoodToken,
                   IF editing THEN Val(ui.editingProduct).id ELSE 0, "multipart",
                   ui.formData.name, ui.formData.price, ui.formData.category,
                   ui.formData.stock, ui.selectedImages,
                   IF editing /\ Len(existingImageUrls) > 0
                     THEN Existing("array", existingImageUrls) ELSE None,
                   None)
          @@ [call |-> [by |-> "handleSave", editingProduct |-> ui.editingProduct]]

\* handleSave up to its axios call; a form that fails a check is left as it is
handleSave(s) ==
    /\ ui.isModalOpen
    /\ slots[s].pc = "idle"
    /\ TruthyStr(ui.formData.name) /\ Trim(Val(ui.formData.name)) # <<>>
    /\ IsSome(ui.formData.price) /\ Val(ui.formData.price) > 0
    /\ TruthyStr(ui.formData.category)
    /\ IsSome(ui.formData.stock) /\ Val(ui.formData.stock) >= 0
    /\ ~IsSome(ui.editingProduct) => Len(ui.selectedImages) > 0
    /\ WithinBounds(FormRequest)
    /\ slots' = [slots EXCEPT ![s] =
                   [pc |-> "protect", req |-> FormRequest, loc |-> [user |-> 0]]]
    /\ UNCHANGED ui
    /\ UiUnchangedServer

\* handleSave from the response on: on success loadProducts() is called and
\* the form is closed and reset
handleSaveDone(s) ==
    /\ slots[s].pc = "done"
    /\ slots[s].req.call.by = "handleSave"
    /\ IF slots[s].res.status \in {200, 201}
         THEN /\ slots' = [slots EXCEPT ![s] =
                   [pc |-> "protect",
                    req |-> BareReq("getProducts", GoodToken, 0, {})
                              @@ [call |-> [by |-> "loadProducts", editingProduct |-> None]],
                    loc |-> [user |-> 0]]]
              /\ ui' = [ui EXCEPT
                          !.isModalOpen = FALSE, !.formData = NoFormData,
                          !.selectedImages = <<>>, !.imagePreviews = <<>>,
                          !.editingProduct =
                              IF IsSome(slots[s].req.call.editingProduct) THEN None ELSE @]
         ELSE /\ slots' = [slots EXCEPT ![s] = Idle]
              /\ UNCHANGED ui
    /\ UiUnchangedServer

NextForm ==
    \/ loadProducts("r1")
    \/ loadProductsDone("r1")
    \/ handleAdd
    \/ \E product \in ui.products : handleEdit(product)
    \/ \E field \in DOMAIN FormValues : \E value \in FormValues[field] :
          setFormData(field, value)
    \/ \E files \in FormFileSeqs : handleImageChange(files)
    \/ \E i \in 1..MaxSelected : readerOnload(i)
    \/ \E index \in 1..(2 * MaxSelected) : handleRemoveImage(index)
    \/ cancel
    \/ handleSave("r1")
    \/ handleSaveDone("r1")
    \/ protect("r1")
    \/ createProduct("r1")
    \/ updateProduct("r1")
    \/ getProducts("r1")

SpecForm == InitImages /\ [][NextForm]_vars

\* ---------------------------------------------------------------------------
\* The image previews of the form, with two files in hand
\* ---------------------------------------------------------------------------

MaxPreviewFiles == 2

FileA == [image |-> TRUE, ok |-> TRUE, name |-> "a.png"]
FileB == [image |-> TRUE, ok |-> TRUE, name |-> "b.png"]
NotesFile == [image |-> FALSE, ok |-> TRUE, name |-> "notes.txt"]

PreviewFileSeqs == {<<FileA>>, <<FileB>>, <<FileA, FileB>>, <<NotesFile, FileB>>}

NextPreview ==
    \/ handleAdd
    \/ \E files \in PreviewFileSeqs : handleImageChangeWithin(files, MaxPreviewFiles)
    \/ \E i \in 1..MaxPreviewFiles : readerOnload(i)
    \/ \E index \in 1..MaxPreviewFiles : handleRemoveImage(index)
    \/ cancel

SpecPreview == Init /\ [][NextPreview]_vars

\* ---------------------------------------------------------------------------
\* The product list view: search, pages and deletions over a stored list
\* ---------------------------------------------------------------------------

MaxDeletes == 1

ViewNames == << <<"a", "a">>, <<"a", "b">>, <<"a", "c">>, <<"a", "d">>, <<"b", "a">>,
                <<"b", "b">> >>

ViewStore ==
    {[id |-> i, name |-> ViewNames[i], price |-> i * Unit, category |-> NameAb,
      stock |-> Unit, images |-> <<CloudUrl(1)>>] : i \in 1..Len(ViewNames)}

SearchTerms == {<<>>, <<"b", "b">>}

\* the component has mounted: its first loadProducts is on its way
InitView ==
    /\ ui = UiInit
    /\ users = {Admin}
    /\ jwtSecret = "env_secret"
    /\ now = 0
    /\ categories = {[id |-> 1, name |-> NameAb]}
    /\ nextCategoryId = 2
    /\ products = ViewStore
    /\ nextProductId = Len(ViewNames) + 1
    /\ uploads = 1
    /\ media = {CloudPublicId(1)}
    /\ slots = [s \in Slots |-> IF s = "r1" THEN LoadRequest(UiInit) ELSE Idle]

\* the renders after a change of search, category or sort: the effect on the
\* filters calls loadProducts with the page of that render, the next effect
\* sets the page to 1, and when that changes the page the first effect runs
\* again
filtersChanged(view) ==
    IF view.currentPage = 1
      THEN /\ \E s \in Slots :
                /\ slots[s].pc = "idle"
                /\ slots' = [slots EXCEPT ![s] = LoadRequest(view)]
           /\ ui' = view
      ELSE /\ \E s \in Slots, t \in Slots :
                /\ s # t
                /\ slots[s].pc = "idle" /\ slots[t].pc = "idle"
                /\ slots' = [slots EXCEPT
                               ![s] = LoadRequest(view),
                               ![t] = LoadRequest([view EXCEPT !.currentPage = 1])]
           /\ ui' = [view EXCEPT !.currentPage = 1]

\* the onChange of the search box
setSearchTerm(value) ==
    /\ value # ui.searchTerm
    /\ filtersChanged([ui EXCEPT !.searchTerm = value])
    /\ UiUnchangedServer

\* the pages the pagination buttons lead to: Previous, Next and the numbered
\* buttons shown, drawn only when there is more than one page
PageTargets ==
    IF ui.totalPages > 1
      THEN (IF ui.currentPage # 1
              THEN {IF ui.currentPage - 1 > 1 THEN ui.currentPage - 1 ELSE 1} ELSE {})
           \cup (IF ui.currentPage # ui.totalPages
                   THEN {IF ui.currentPage + 1 < ui.totalPages
                           THEN ui.currentPage + 1 ELSE ui.totalPages}
                   ELSE {})
           \cup {page \in 1..ui.totalPages :
                    \/ page = 1
                    \/ page = ui.totalPages
                    \/ (page >= ui.currentPage - 1 /\ page <= ui.currentPage + 1)}
      ELSE {}

\* a click on a pagination button that changes the page
setCurrentPage(page) ==
    /\ page \in PageTargets
    /\ page # ui.currentPage
    /\ ui' = [ui EXCEPT !.currentPage = page]
    /\ \E s \in Slots :
          /\ slots[s].pc = "idle"
          /\ slots' = [slots EXCEPT ![s] = LoadRequest(ui')]
    /\ UiUnchangedServer

\* handleDelete up to its axios.delete, the confirmation accepted
handleDelete(s, product) ==
    /\ product \in ui.products
    /\ slots[s].pc = "idle"
    /\ Cardinality(products) > Len(ViewNames) - MaxDeletes
    /\ slots' = [slots EXCEPT ![s] =
                   [pc |-> "protect",
                    req |-> BareReq("deleteProduct", GoodToken, product.id, {})
                              @@ [call |-> [by |-> "handleDelete", view |-> ui]],
                    loc |-> [user |-> 0]]]
    /\ UNCHANGED ui
    /\ UiUnchangedServer

\* handleDelete from the response on: on success it calls the loadProducts of
\* the render in which the button was clicked
handleDeleteDone(s) ==
    /\ slots[s].pc = "done"
    /\ slots[s].req.call.by = "handleDelete"
    /\ slots' = [slots EXCEPT ![s] =
                   IF slots[s].res.status = 200
                     THEN LoadRequest(slots[s].req.call.view) ELSE Idle]
    /\ UNCHANGED ui
    /\ UiUnchangedServer

\* the user changes the search or the page at any moment, with loads under way
NextView ==
    \/ \E value \in SearchTerms : setSearchTerm(value)
    \/ \E page \in 1..Len(ViewNames) : setCurrentPage(page)
    \/ \E s \in Slots :
          \/ loadProductsDone(s)
          \/ protect(s)
          \/ getProducts(s)

SpecView == InitView /\ [][NextView]_vars

\* no request is under way
Settled == \A s \in Slots : slots[s].pc = "idle"

\* the user acts only once the view has settled
NextPages ==
    \/ \E value \in SearchTerms : Settled /\ setSearchTerm(value)
    \/ \E page \in 1..Len(ViewNames) : Settled /\ setCurrentPage(page)
    \/ \E product \in ui.products : Settled /\ handleDelete("r1", product)
    \/ \E s \in Slots :
          \/ handleDeleteDone(s)
          \/ loadProductsDone(s)
          \/ protect(s)
          \/ getProducts(s)
          \/ deleteProduct(s)

SpecPages == InitView /\ [][NextPages]_vars

\* ---------------------------------------------------------------- C3
\* the request was sent by handleSave for a product whose images the form showed
SavedEdit(s, p) ==
    /\ "call" \in DOMAIN slots[s].req
    /\ slots[s].req.call.by = "handleSave"
    /\ slots[s].req.call.editingProduct = Some(p)
    /\ p.images # <<>>
    /\ slots[s].req.files = <<>>

\* C3 as stated: when the form saves an edit of a product with images and no
\* new file, the stored list ends empty if the user removed every preview and
\* ends as it was if the user left the previews alone.
C3_RemovedAllVersusUntouched ==
    [][\A s \in Slots :
         Handles(s, "updateProduct")
         => \A p \in products :
              SavedEdit(s, p)
              => \E q \in products' :
                   /\ q.id = p.id
                   /\ slots[s].req.existingImages = None => q.images = <<>>
                   /\ slots[s].req.existingImages = Existing("array", p.images)
                      => q.images = p.images]_vars

\* ================================================================ SpecTrip
\* A client that runs the round trip createCategory(c), createProduct
\* referencing c, deleteProduct, deleteCategory(c), each request sent when the
\* response to the one before has arrived, on a store that other requests
\* have filled before. After the product was created the client may instead
\* try deleteCategory(c) at once. The request carries the client's notes:
\* the step, the statuses so far, the ids the responses returned, and what
\* the store held for c when the trip began.
TripNames == {NameAb, NameCd}
TripExpected == <<201, 201, 200, 200>>

OnTrip(s) == slots[s].pc # "idle" /\ "trip" \in DOMAIN slots[s].req

TripStart(s, c) ==
    /\ slots[s].pc = "idle"
    /\ nextCategoryId <= MaxCategories
    /\ nextProductId <= MaxProducts + 1
    /\ slots' = [slots EXCEPT ![s] =
          [pc |-> "handler",
           req |-> CategoryReq("createCategory", 0, Some(c))
                     @@ [trip |-> [step |-> 1, c |-> c, log |-> <<>>, cat |-> 0, prod |-> 0,
                                   early |-> FALSE,
                                   fresh |-> CategoryFindOne(c) = {},
                                   clean |-> \A p \in products : p.category # c]],
           loc |-> [user |-> 0]]]
    /\ UNCHANGED <<ui, authVars, catVars, prodVars, mediaVars>>

\* the next request of the trip, built from the response just received
TripRequest(t, status, early) ==
    LET log == Append(t.log, status)
    IN  IF t.step = 1
          THEN ProductReq("createProduct", GoodToken, 0, "multipart", Some(ProductName),
                          Some(Unit), Some(t.c), Some(0), <<>>, None, None)
                 @@ [trip |-> [t EXCEPT !.step = 2, !.log = log, !.cat = nextCategoryId - 1]]
        ELSE IF t.step = 2 /\ early
          THEN CategoryReq("deleteCategory", t.cat, None)
                 @@ [trip |-> [t EXCEPT !.step = 3, !.log = log, !.early = TRUE,
                                        !.prod = nextProductId - 1]]
        ELSE IF t.step = 2
          THEN BareReq("deleteProduct", GoodToken, nextProductId - 1, {})
                 @@ [trip |-> [t EXCEPT !.step = 3, !.log = log, !.prod = nextProductId - 1]]
        ELSE CategoryReq("deleteCategory", t.cat, None)
               @@ [trip |-> [t EXCEPT !.step = 4, !.log = log]]

TripNext(s, early) ==
    /\ OnTrip(s)
    /\ slots[s].pc = "done"
    /\ LET t == slots[s].req.trip
           req == TripRequest(t, slots[s].res.status, early)
       IN  /\ t.step < 4
           /\ ~t.early
           /\ early => t.step = 2
           /\ slots[s].res.status = TripExpected[t.step]
           /\ slots' = [slots EXCEPT ![s] =
                 [pc |-> IF req.op \in ProtectedOps THEN "protect" ELSE "handler",
                  req |-> req, loc |-> [user |-> 0]]]
    /\ UNCHANGED <<ui, authVars, catVars, prodVars, mediaVars>>

TripBackground ==
    {CategoryReq("createCategory", 0, Some(n)) : n \in TripNames}
    \cup {CategoryReq("updateCategory", i, Some(n)) : i \in CategoryIds, n \in TripNames}
    \cup {ProductReq("createProduct", GoodToken, 0, "json", Some(ProductName), Some(Unit),
                     Some(n), Some(Unit), <<>>, None, None) : n \in TripNames}

NextTrip ==
    \/ \E req \in TripBackground : Receive("r1", req)
    \/ \E c \in TripNames : TripStart("r1", c)
    \/ \E early \in BOOLEAN : TripNext("r1", early)
    \/ protect("r1")
    \/ createCategory("r1")
    \/ updateCategory("r1")
    \/ deleteCategory("r1")
    \/ createProduct("r1")
    \/ deleteProduct("r1")
    \/ Deliver("r1")

SpecTrip == Init /\ [][NextTrip]_vars

\* ---------------------------------------------------------------- C6
\* the trip's response so far is the one the round trip promises: 201, 201,
\* 200, 200 in order with neither record stored at the end, and
\* 400 CATEGORY_IN_USE for the early deleteCategory
TripAsPromised(s) ==
    LET t == slots[s].req.trip
        res == slots[s].res
    IN  IF t.early THEN res.status = 400 /\ res.error = "CATEGORY_IN_USE"
        ELSE /\ res.status = TripExpected[t.step]
             /\ t.step = 4 => CategoryFindById(t.cat) = {} /\ ProductFindById(t.prod) = {}

\* C6 as stated: for a valid name c that is not stored, every response of the
\* round trip is as promised.
C6_RoundTrip ==
    \A s \in Slots :
        (OnTrip(s) /\ slots[s].pc = "done" /\ slots[s].req.trip.fresh) => TripAsPromised(s)

\* C6 amended: the same, provided that no stored product already carries c as
\* its category when the trip begins.
C6_RoundTripOnCleanName ==
    \A s \in Slots :
        (/\ OnTrip(s)
         /\ slots[s].pc = "done"
         /\ slots[s].req.trip.fresh
         /\ slots[s].req.trip.clean) => TripAsPromised(s)

C6_Witness ==
    \E s \in Slots :
        /\ OnTrip(s)
        /\ slots[s].pc = "done"
        /\ slots[s].req.trip.fresh
        /\ slots[s].req.trip.clean
        /\ slots[s].req.trip.step = 4
        /\ slots[s].req.trip.log = <<201, 201, 200>>
        /\ slots[s].res.status = 200
        /\ products # {}

\* ---------------------------------------------------------------- C10
\* the bearer token is missing, malformed, not signed with the server's key,
\* expired, or names no stored user
BadToken(tok) ==
    \/ tok.kind = "none"
    \/ tok.kind = "garbage"
    \/ tok.key # jwtSecret
    \/ tok.exp <= now
    \/ \A u \in users : u.id # tok.id

\* C10: a request to a protected route with a bad token is answered 401
\* UNAUTHORIZED by protect, never reaches its handler, and changes no user,
\* category, product or media object.
C10_BadTokenRejected ==
    [][\A s \in Slots :
         (/\ slots[s].pc = "protect"
          /\ slots[s].req.op \in ProtectedOps
          /\ BadToken(slots[s].req.tok)
          /\ slots'[s] # slots[s])
         => /\ slots'[s].pc = "done"
            /\ slots'[s].res = Res(401, "UNAUTHORIZED", "protect")
            /\ users' = users
            /\ categories' = categories
            /\ products' = products
            /\ media' = media]_vars

C10_Witness ==
    \E s \in Slots :
        /\ slots[s].pc = "done"
        /\ slots[s].req.op = "deleteProduct"
        /\ slots[s].req.tok = Jwt(1, "env_secret", 1)
        /\ jwtSecret = "env_secret"
        /\ now >= 1
        /\ slots[s].res = Res(401, "UNAUTHORIZED", "protect")
        /\ \E p \in products : p.id = slots[s].req.id

\* ---------------------------------------------------------------- C1, C2, C4
\* the request carries no uploaded file, no existingImages and no images field
NoImageInput(req) == req.files = <<>> /\ req.existingImages = None /\ req.images = None

\* the request carries a keep list: existingImages holding a serialised array
KeepSupplied(req) == IsSome(req.existingImages) /\ Val(req.existingImages).kind = "array"

\* C1: an updateProduct request with no files, no keep list and no flat URL list
\* leaves the product's images list as it was, whatever scalar fields it carries.
C1_NoImageInputKeepsImages ==
    [][\A s \in Slots :
         (Handles(s, "updateProduct") /\ NoImageInput(slots[s].req))
         => \A p \in products :
              p.id = slots[s].req.id
              => \E q \in products' : q.id = p.id /\ q.images = p.images]_vars

C1_Witness ==
    \E s \in Slots :
        /\ slots[s].pc = "done"
        /\ slots[s].req.op = "updateProduct"
        /\ NoImageInput(slots[s].req)
        /\ IsSome(slots[s].req.price)
        /\ slots[s].res.status = 200
        /\ \E q \in products : /\ q.id = slots[s].req.id
                               /\ q.price = Val(slots[s].req.price)
                               /\ Len(q.images) >= 2

\* C2 as stated: images change only on image input, and a stored image named
\* in a supplied keep list is still stored after the call, for every
\* combination of files, keep list and flat URL list.
C2_KeepListRetained_AllShapes ==
    [][\A s \in Slots :
         Handles(s, "updateProduct")
         => \A p \in products :
              p.id = slots[s].req.id
              => \E q \in products' :
                   /\ q.id = p.id
                   /\ NoImageInput(slots[s].req) => q.images = p.images
                   /\ KeepSupplied(slots[s].req)
                      => \A u \in Range(Val(slots[s].req.existingImages).urls) :
                           u \in Range(p.images) => u \in Range(q.images)]_vars

\* the request carries a flat URL list with at least one entry
FlatNonEmpty(req) == IsSome(req.images) /\ Val(req.images) # <<>>

\* C2 amended: as C2, for requests that carry no non-empty flat URL list.
C2_KeepListRetained ==
    [][\A s \in Slots :
         Handles(s, "updateProduct")
         => \A p \in products :
              p.id = slots[s].req.id
              => \E q \in products' :
                   /\ q.id = p.id
                   /\ NoImageInput(slots[s].req) => q.images = p.images
                   /\ (KeepSupplied(slots[s].req) /\ ~FlatNonEmpty(slots[s].req))
                      => \A u \in Range(Val(slots[s].req.existingImages).urls) :
                           u \in Range(p.images) => u \in Range(q.images)]_vars

C2_Witness ==
    \E s \in Slots :
        /\ slots[s].pc = "done"
        /\ slots[s].req.op = "updateProduct"
        /\ slots[s].res.status = 200
        /\ KeepSupplied(slots[s].req)
        /\ \E f \in Range(slots[s].req.files) : f.image /\ ~f.ok
        /\ \E f \in Range(slots[s].req.files) : f.image /\ f.ok
        /\ \E q \in products :
             /\ q.id = slots[s].req.id
             /\ Len(q.images) >= 2
             /\ \E u \in Range(Val(slots[s].req.existingImages).urls) : u \in Range(q.images)

\* the request has no files, no flat list, and a keep list equal to images
KeepsExactly(req, images) ==
    /\ req.files = <<>>
    /\ req.images = None
    /\ req.existingImages = Existing("array", images)

Moves(s, op, pc, next) == At(s, pc, op) /\ slots'[s].pc = next

\* C7 as stated: at the step where deleteCategory removes category c no stored
\* product has category equal to c's name, and no createProduct or
\* updateProduct that validated against c writes a reference to c once c is gone.
C7_NeverRemovedWhileReferenced ==
    [][\A s \in Slots :
         /\ Moves(s, "deleteCategory", "findByIdAndDelete", "done")
            => \A c \in categories :
                 c.id = slots[s].req.id => \A p \in products : p.category # c.name
         /\ (/\ \/ Moves(s, "createProduct", "create", "done")
                \/ Moves(s, "updateProduct", "save", "done")
             /\ \E p \in products' \ products :
                    p.category = Trim(Val(slots[s].req.category)))
            => \E c \in categories : c.id = slots[s].loc.cat]_vars

\* C7 amended: each check holds at the step that makes it. When deleteCategory's
\* in-use check lets the removal go ahead no stored product has category equal
\* to the loaded category's name, and when the category check of createProduct
\* or updateProduct lets the write go ahead the named category is stored.
C7_ChecksHoldWhenMade ==
    [][\A s \in Slots :
         /\ Moves(s, "deleteCategory", "findOne", "findByIdAndDelete")
            => \A p \in products : p.category # slots[s].loc.doc.name
         /\ Moves(s, "createProduct", "handler", "create")
            => \E c \in categories : /\ c.name = Trim(Val(slots[s].req.category))
                                     /\ c.id = slots'[s].loc.cat
         /\ (Moves(s, "updateProduct", "findOne", "save") /\ IsSome(slots[s].req.category))
            => \E c \in categories : /\ c.name = Trim(Val(slots[s].req.category))
                                     /\ c.id = slots'[s].loc.cat]_vars

C7_Witness ==
    \E s \in Slots, t \in Slots :
        /\ At(s, "findByIdAndDelete", "deleteCategory")
        /\ At(t, "create", "createProduct")
        /\ slots[t].loc.cat = slots[s].req.id
        /\ \E c \in categories : c.id = slots[s].req.id
        /\ products = {}

\* C8: no two stored categories have the same name, and every stored name is
\* trimmed, in every state reached by interleaved category requests.
C8_UniqueNames ==
    \A c \in categories :
        /\ c.name = Trim(c.name)
        /\ \A d \in categories : c.name = d.name => c.id = d.id

C8_Witness ==
    \E s \in Slots :
        /\ At(s, "create", "createCategory")
        /\ \E c \in categories : c.name = Trim(Val(slots[s].req.name))
        /\ Cardinality(categories) = 1

\* C9 as stated: a createCategory or updateCategory request that ends while
\* another stored category holds the name it asked for is answered 409
\* DUPLICATE_CATEGORY and leaves the categories as they were.
C9_CollisionLoserGets409 ==
    [][\A s \in Slots :
         (/\ slots[s].pc \in {"handler", "create", "findOne", "save"}
          /\ slots[s].req.op \in {"createCategory", "updateCategory"}
          /\ slots'[s].pc = "done"
          /\ ~CategoryNameInvalid(slots[s].req.name)
          /\ slots[s].req.op = "updateCategory" => CategoryFindById(slots[s].req.id) # {}
          /\ \E c \in categories :
                /\ c.name = Trim(Val(slots[s].req.name))
                /\ slots[s].req.op = "updateCategory" => c.id # slots[s].req.id)
         => /\ slots'[s].res.status = 409
            /\ slots'[s].res.error = "DUPLICATE_CATEGORY"
            /\ categories' = categories]_vars

\* ---------------------------------------------------------------- C11
\* the request satisfies what createProduct is promised to need: a name of
\* at least 2 characters after trimming, a price above 0, a category that
\* names a stored category and a stock of 0 or more
ValidCreate(req) ==
    /\ TruthyStr(req.name) /\ Len(Trim(Val(req.name))) >= 2
    /\ IsSome(req.price) /\ Val(req.price) > 0
    /\ TruthyStr(req.category)
    /\ \E c \in categories : c.name = Trim(Val(req.category))
    /\ IsSome(req.stock) /\ Val(req.stock) >= 0

\* C11: every createProduct request with a trimmed name of length >= 2, a
\* price > 0, a category naming a stored category and a stock >= 0 is answered
\* 201 and stores exactly one product, whose name, price, category and stock
\* are the trimmed and parsed inputs, whatever files and keep list come with it.
C11_ValidCreateStored ==
    [][\A s \in Slots :
         (Handles(s, "createProduct") /\ ValidCreate(slots[s].req))
         => /\ slots'[s].res.status = 201
            /\ \E p \in products' :
                 /\ products' = products \cup {p}
                 /\ p \notin products
                 /\ p.name = Trim(Val(slots[s].req.name))
                 /\ p.price = Val(slots[s].req.price)
                 /\ p.category = Trim(Val(slots[s].req.category))
                 /\ p.stock = ParseInt(Val(slots[s].req.stock))]_vars

\* ---------------------------------------------------------------- C12
\* the fields of a createProduct request that are invalid: a name missing or
\* shorter than 2 after trimming, a price missing or not above 0, a category
\* missing or blank, a stock missing or below 0
InvalidFields(req) ==
    {f \in {"name"} : ~IsSome(req.name) \/ Len(Trim(Val(req.name))) < 2}
    \cup {f \in {"price"} : ~IsSome(req.price) \/ ~(Val(req.price) > 0)}
    \cup {f \in {"category"} : ~IsSome(req.category) \/ Trim(Val(req.category)) = <<>>}
    \cup {f \in {"stock"} : ~IsSome(req.stock) \/ ~(Val(req.stock) >= 0)}

\* C12: createProduct with at least one invalid field answers 400 with an
\* errors map whose keys are exactly the invalid fields, stores no product,
\* makes no call of the media host and uploads nothing.
C12_AllInvalidFieldsReported ==
    [][\A s \in Slots :
         (Handles(s, "createProduct") /\ InvalidFields(slots[s].req) # {})
         => /\ slots'[s].res.status = 400
            /\ slots'[s].res.errors = InvalidFields(slots[s].req)
            /\ slots'[s].res.calls = 0
            /\ products' = products
            /\ uploads' = uploads
            /\ media' = media]_vars

\* a request with an image file attached and both price and stock invalid has
\* been answered with exactly those two fields
C12_Witness ==
    \E s \in Slots :
        /\ slots[s].pc = "done"
        /\ slots[s].req.op = "createProduct"
        /\ UploadCalls(FilesOf(slots[s].req)) > 0
        /\ InvalidFields(slots[s].req) = {"price", "stock"}
        /\ slots[s].res.status = 400
        /\ slots[s].res.errors = {"price", "stock"}

\* ---------------------------------------------------------------- C13
\* the request supplies a category that, trimmed, is a name no stored
\* category has
UnknownCategory(req) ==
    /\ IsSome(req.category)
    /\ Trim(Val(req.category)) # <<>>
    /\ \A c \in categories : c.name # Trim(Val(req.category))

\* the supplied fields of an updateProduct request that createProduct would
\* reject
InvalidSupplied(req) ==
    {f \in {"name"} : IsSome(req.name) /\ Len(Trim(Val(req.name))) < 2}
    \cup {f \in {"price"} : IsSome(req.price) /\ ~(Val(req.price) > 0)}
    \cup {f \in {"category"} : IsSome(req.category) /\ Trim(Val(req.category)) = <<>>}
    \cup {f \in {"stock"} : IsSome(req.stock) /\ ~(Val(req.stock) >= 0)}

\* the request leaves the products and the media host as they were, and was
\* answered before any call of the media host
NothingDone(s) ==
    /\ slots'[s].res.calls = 0
    /\ products' = products
    /\ uploads' = uploads
    /\ media' = media

\* C13 as stated: every createProduct or updateProduct request whose category
\* names no stored category is answered 400, makes no call of the media host
\* and stores or changes no product.
C13_UnknownCategoryIs400 ==
    [][\A s \in Slots :
         ((Handles(s, "createProduct") \/ Handles(s, "updateProduct"))
          /\ UnknownCategory(slots[s].req))
         => (slots'[s].res.status = 400 /\ NothingDone(s))]_vars

\* C13, amended: such a request makes no call of the media host and stores or
\* changes no product; it is answered 404 when it is an updateProduct of a
\* product that is not stored and 400 otherwise, and the 400 names the
\* category as the one invalid field when no field fails the validation.
C13_UnknownCategoryRefused ==
    [][\A s \in Slots :
         ((Handles(s, "createProduct") \/ Handles(s, "updateProduct"))
          /\ UnknownCategory(slots[s].req))
         => LET req == slots[s].req
                missing == req.op = "updateProduct" /\ \A p \in products : p.id # req.id
                passes == IF req.op = "createProduct" THEN InvalidFields(req) = {}
                          ELSE InvalidSupplied(req) = {}
            IN  /\ NothingDone(s)
                /\ slots'[s].res.status = IF missing THEN 404 ELSE 400
                /\ ~missing => slots'[s].res.errors # {}
                /\ (~missing /\ passes) => slots'[s].res.errors = {"category"}]_vars

\* an updateProduct of a stored product that came with an image file and an
\* unknown category has been answered 400 with no call of the media host
C13_Witness ==
    \E s \in Slots :
        /\ slots[s].pc = "done"
        /\ slots[s].req.op = "updateProduct"
        /\ UnknownCategory(slots[s].req)
        /\ UploadCalls(FilesOf(slots[s].req)) > 0
        /\ \E p \in products : p.id = slots[s].req.id
        /\ slots[s].res.status = 400
        /\ slots[s].res.errors = {"category"}
        /\ slots[s].res.calls = 0

\* ---------------------------------------------------------------- C14
\* the product as updateProduct is promised to leave it after a 200: the
\* absent fields as stored, the supplied ones trimmed and parsed
MergedFields(req, p) ==
    [name |-> IF IsSome(req.name) THEN Trim(Val(req.name)) ELSE p.name,
     price |-> IF IsSome(req.price) THEN Val(req.price) ELSE p.price,
     category |-> IF IsSome(req.category) THEN Trim(Val(req.category)) ELSE p.category,
     stock |-> IF IsSome(req.stock) THEN ParseInt(Val(req.stock)) ELSE p.stock]

\* C14: updateProduct of a stored product: when a supplied field holds a value
\* createProduct would reject (name shorter than 2 after trimming, price <= 0,
\* blank category, stock < 0) the answer is 400 and the product is unchanged;
\* otherwise, after a 200, every absent field has its stored value and every
\* supplied field (stock = 0 included) has the supplied value.
C14_PartialUpdate ==
    [][\A s \in Slots : \A p \in products :
         (Handles(s, "updateProduct") /\ p.id = slots[s].req.id)
         => LET req == slots[s].req
            IN  IF InvalidSupplied(req) # {}
                  THEN slots'[s].res.status = 400 /\ products' = products
                  ELSE slots'[s].res.status = 200
                       => \E q \in products' :
                            /\ q.id = p.id
                            /\ [f \in DOMAIN MergedFields(req, p) |-> q[f]]
                                 = MergedFields(req, p)]_vars

\* ---------------------------------------------------------------- C15
\* the references createProduct is promised to store: those of the image
\* files whose upload succeeded, in file order (the k-th of them is the k-th
\* object the media host receives from now on), then the keep-list entries
\* the handler accepts, in submitted order
ExpectedImages(req) ==
    LET files == IF req.ctype = "multipart" THEN req.files ELSE <<>>
        done == SelectSeq(files, LAMBDA f : f.image /\ f.ok)
        keep == IF IsSome(req.existingImages) /\ Val(req.existingImages).kind = "array"
                  THEN Val(req.existingImages).urls ELSE <<>>
    IN  [k \in 1..Len(done) |-> CloudUrl(uploads + k)]
          \o SelectSeq(keep, LAMBDA u : u # EmptyUrl /\ IncludesCloudinary(u))

\* C15: createProduct with valid fields and a stored category, whose record
\* the schema admits, is answered 201 whichever uploads fail, and the stored
\* images are the references of the successful uploads of image files in file
\* order followed by the accepted keep-list references in submitted order.
C15_StoredImages ==
    [][\A s \in Slots :
         (/\ Handles(s, "createProduct")
          /\ ValidCreate(slots[s].req)
          /\ Val(slots[s].req.price) >= PriceMin
          /\ Len(Trim(Val(slots[s].req.name))) <= ProductNameMax
          /\ Len(ExpectedImages(slots[s].req)) <= ImagesMax)
         => /\ slots'[s].res.status = 201
            /\ \E p \in products' :
                 /\ products' = products \cup {p}
                 /\ p \notin products
                 /\ p.images = ExpectedImages(slots[s].req)]_vars

\* a request with a failed upload between two successful ones and a keep list
\* with one entry of another host has been answered 201, the product holding
\* the two uploads and then the two accepted entries
C15_Witness ==
    \E s \in Slots : \E p \in products :
        /\ slots[s].pc = "done"
        /\ slots[s].req.op = "createProduct"
        /\ slots[s].res.status = 201
        /\ slots[s].req.files = <<GoodFile, FailingFile, GoodFile>>
        /\ slots[s].req.existingImages = Existing("array", <<HttpUrl, CloudUrl(2), CloudUrl(1)>>)
        /\ p.images = <<CloudUrl(1), CloudUrl(2), CloudUrl(2), CloudUrl(1)>>

\* ---------------------------------------------------------------- C16
\* the URL's host is cloudinary.com or a subdomain of it: the third
\* '/'-segment of scheme://host/path ends with the atoms "cloudinary", "com"
HostedOnMediaHost(url) ==
    /\ Len(url) >= 3
    /\ url[1] \in {<<"http:">>, <<"https:">>}
    /\ url[2] = <<"">>
    /\ Len(url[3]) >= 2
    /\ url[3][Len(url[3]) - 1] = "cloudinary"
    /\ url[3][Len(url[3])] = "com"

\* C16: after any sequence of createProduct and updateProduct requests, every
\* reference in every stored product's images list is a URL hosted on the
\* media host's domain.
C16_OnlyHostedStored ==
    \A p \in products : \A i \in 1..Len(p.images) : HostedOnMediaHost(p.images[i])

\* ---------------------------------------------------------------- C17
\* C17: in every state reached by createProduct and updateProduct requests,
\* every stored product has at most 10 image references, a price above 0 and
\* a stock that is a whole number not below 0.
C17_StoredProductsWellFormed ==
    \A p \in products :
        /\ Len(p.images) <= 10
        /\ p.price > 0
        /\ p.stock >= 0
        /\ p.stock % Unit = 0

\* a stored product holds 10 references, and an update of it whose keep list
\* names 11 has been answered 500
C17_Witness ==
    \E s \in Slots : \E p \in products :
        /\ slots[s].pc = "done"
        /\ slots[s].req.op = "updateProduct"
        /\ slots[s].req.id = p.id
        /\ slots[s].req.existingImages = Existing("array", Repeat(CloudUrl(1), 11))
        /\ slots[s].res.status = 500
        /\ Len(p.images) = 10

\* ---------------------------------------------------------------- C20
\* the media-host objects that the references at the positions whose
\* deletion does not fail were returned for
ObjectsAt(images, fails) ==
    {CloudPublicId(n) : n \in {k \in 1..Len(ImgNames) :
                                 \E i \in (1..Len(images)) \ fails : images[i] = CloudUrl(k)}}

\* C20: deleteProduct of a stored product removes the product record and
\* answers 200 whatever subset of the media deletions fails, and every
\* deletion that does not fail removes the object its reference names.
C20_DeleteSurvivesMediaFailures ==
    [][\A s \in Slots : \A p \in products :
         (Handles(s, "deleteProduct") /\ p.id = slots[s].req.id)
         => /\ slots'[s].res.status = 200
            /\ products' = products \ {p}
            /\ media' = media \ ObjectsAt(p.images, slots[s].req.destroyFails)]_vars

\* a product with two uploaded images has been deleted with the first media
\* deletion failing: the record is gone, the first object is still hosted,
\* the second is not
C20_Witness ==
    \E s \in Slots :
        /\ slots[s].pc = "done"
        /\ slots[s].req.op = "deleteProduct"
        /\ slots[s].req.destroyFails = {1}
        /\ slots[s].res.status = 200
        /\ products = {}
        /\ uploads = 2
        /\ media = {CloudPublicId(1)}

\* ---------------------------------------------------------------- C18
\* the query as the caller means it: absent parameters at their defaults,
\* page and limit as numbers
Requested(q) ==
    [sortBy |-> IF IsSome(q.sortBy) THEN Val(q.sortBy) ELSE "name",
     sortOrder |-> IF IsSome(q.sortOrder) THEN Val(q.sortOrder) ELSE "asc",
     page |-> IF IsSome(q.page) THEN Val(q.page) \div Unit ELSE 1,
     limit |-> IF IsSome(q.limit) THEN Val(q.limit) \div Unit ELSE 5]

PositiveWhole(o) == IsSome(o) => (Val(o) >= Unit /\ Val(o) % Unit = 0)

\* `part` occurs in `text`, letters compared without regard to case
ContainsIgnoringCase(text, part) ==
    \E off \in 0..(Len(text) - Len(part)) :
        \A i \in 1..Len(part) : Lower(part[i]) = Lower(text[off + i])

\* the products the filter selects: those whose name contains the search text
\* and whose category is the one asked for ('all' and none ask for any)
Filtered(q) ==
    {p \in products :
        /\ (IsSome(q.search) /\ Val(q.search) # <<>>)
             => ContainsIgnoringCase(p.name, Val(q.search))
        /\ (IsSome(q.category) /\ Val(q.category) \notin {<<>>, <<"a", "l", "l">>})
             => p.category = Val(q.category)}

\* x must come before y when ordered by `field` in `direction`; no field,
\* no constraint
ComesFirst(x, y, field, direction) ==
    LET before(u, v) == IF field \in {"price", "stock"} THEN u[field] < v[field]
                        ELSE IF field \in {"name", "category"}
                          THEN StrLess(u[field], v[field])
                        ELSE FALSE
    IN  IF direction = "desc" THEN before(y, x) ELSE before(x, y)

\* the arrangements of `docs` ordered by `field` in `direction`
Arrangements(docs, field, direction) ==
    {o \in [1..Cardinality(docs) -> docs] :
        /\ \A i, j \in DOMAIN o : i # j => o[i] # o[j]
        /\ \A i, j \in DOMAIN o : i < j => ~ComesFirst(o[j], o[i], field, direction)}

RecognizedSort(r) ==
    r.sortBy \in {"name", "price", "stock", "category"} /\ r.sortOrder \in {"asc", "desc"}

\* the items at positions (page-1)*limit+1 .. page*limit of o
PageOf(o, page, limit) ==
    [k \in 1..(IF page * limit <= Len(o) THEN limit
               ELSE IF (page - 1) * limit >= Len(o) THEN 0
               ELSE Len(o) - (page - 1) * limit) |-> o[(page - 1) * limit + k]]

\* C18: for every positive page and limit and every filter, getProducts
\* answers with the items at positions (page-1)*limit+1 to page*limit of the
\* filtered list in the requested sort order (in some order when the sort
\* asked for is not a recognized one), with totalItems the filtered count and
\* totalPages ceil(totalItems/limit).
C18_PageOfFilteredList ==
    [][\A s \in Slots :
         (/\ Handles(s, "getProducts")
          /\ PositiveWhole(QueryOf(slots[s].req).page)
          /\ PositiveWhole(QueryOf(slots[s].req).limit))
         => LET q == QueryOf(slots[s].req)
                r == Requested(q)
                n == Cardinality(Filtered(q))
                res == slots'[s].res
            IN  /\ res.status = 200
                /\ res.data.pagination.totalItems = n
                /\ res.data.pagination.totalPages * r.limit >= n
                /\ (res.data.pagination.totalPages - 1) * r.limit < n
                      \/ (n = 0 /\ res.data.pagination.totalPages = 0)
                /\ \E o \in (IF RecognizedSort(r)
                               THEN Arrangements(Filtered(q), r.sortBy, r.sortOrder)
                               ELSE Arrangements(Filtered(q), "none", "asc")) :
                      res.data.products = PageOf(o, r.page, r.limit)]_vars

\* ---------------------------------------------------------------- C19
\* C19: getProducts orders its results by the requested sortBy in the
\* requested sortOrder when sortBy is a product field and sortOrder is asc or
\* desc, and by name ascending for every other combination.
C19_SortOrFallBackToName ==
    [][\A s \in Slots :
         (Handles(s, "getProducts") /\ slots'[s].res.status = 200)
         => LET r == Requested(QueryOf(slots[s].req))
                items == slots'[s].res.data.products
                field == IF RecognizedSort(r) THEN r.sortBy ELSE "name"
                direction == IF RecognizedSort(r) THEN r.sortOrder ELSE "asc"
            IN  \A i, j \in 1..Len(items) :
                  i < j => ~ComesFirst(items[j], items[i], field, direction)]_vars

\* ---------------------------------------------------------------------------
\* Two concurrent updates of one product
\* ---------------------------------------------------------------------------

ScalarFields == {"name", "price", "category", "stock"}

Supplies(req, f) == IsSome(req[f])

SuppliedValue(req, f) == MergedFields(req, RaceProduct)[f]

\* Slot s completes its persist call with a 200 while the other update of the
\* same product, in slot t, has already been answered 200.
PersistsLast(s, t) ==
    /\ s # t
    /\ At(s, "save", "updateProduct")
    /\ slots'[s].pc = "done" /\ slots'[s].res.status = 200
    /\ slots[t].pc = "done" /\ slots[t].req.op = "updateProduct"
    /\ slots[t].req.id = slots[s].req.id
    /\ slots[t].res.status = 200

StoredBefore(id) == CHOOSE p \in products : p.id = id

StoredAfter(id) == CHOOSE p \in products' : p.id = id

\* C21 as stated: when two updates of one product both return 200, every
\* field supplied by the request whose persist call completes last holds that
\* request's value, and a field only the other one supplied holds the other's.
C21_LastPersistWins ==
    [][\A s \in Slots, t \in Slots :
          PersistsLast(s, t) =>
            \A f \in ScalarFields :
                /\ Supplies(slots[s].req, f) =>
                     StoredAfter(slots[s].req.id)[f] = SuppliedValue(slots[s].req, f)
                /\ (~Supplies(slots[s].req, f) /\ Supplies(slots[t].req, f)) =>
                     StoredAfter(slots[s].req.id)[f] = SuppliedValue(slots[t].req, f)]_vars

\* C21: when two updates of one product both return 200, a field supplied by
\* the request whose persist call completes last holds that request's value
\* when the value differs from the one the request loaded at its start;
\* when it equals the loaded value the persist call does not write the field
\* and the stored value stays as the earlier persist left it.  A field the
\* last request did not supply is left as it was, so a field only the other
\* request supplied holds the other's value.
C21_LastModifyingPersistWins ==
    [][\A s \in Slots, t \in Slots :
          PersistsLast(s, t) =>
            \A f \in ScalarFields :
                /\ (Supplies(slots[s].req, f)
                      /\ SuppliedValue(slots[s].req, f) # slots[s].loc.doc[f]) =>
                     StoredAfter(slots[s].req.id)[f] = SuppliedValue(slots[s].req, f)
                /\ (Supplies(slots[s].req, f)
                      /\ SuppliedValue(slots[s].req, f) = slots[s].loc.doc[f]) =>
                     StoredAfter(slots[s].req.id)[f] = StoredBefore(slots[s].req.id)[f]
                /\ ~Supplies(slots[s].req, f) =>
                     StoredAfter(slots[s].req.id)[f] = StoredBefore(slots[s].req.id)[f]
                /\ (~Supplies(slots[s].req, f) /\ Supplies(slots[t].req, f)) =>
                     StoredAfter(slots[s].req.id)[f] = SuppliedValue(slots[t].req, f)]_vars

\* Two overlapping updates were both answered 200 and both supplied a price:
\* one supplied the price it had loaded and still holds the stock it loaded
\* before the other one's write, the other changed price and stock, and the
\* stored price is the changed one.
C21_Witness ==
    \E s \in Slots, t \in Slots :
        /\ s # t
        /\ slots[s].pc = "done" /\ slots[s].res.status = 200
        /\ slots[t].pc = "done" /\ slots[t].res.status = 200
        /\ slots[s].req.price = Some(Unit) /\ slots[s].req.stock = None
        /\ slots[t].req.price = Some(2 * Unit) /\ slots[t].req.stock = Some(2 * Unit)
        /\ slots[s].res.data.stock = Unit
        /\ \E p \in products : p.id = 1 /\ p.price = 2 * Unit /\ p.stock = 2 * Unit

\* ---------------------------------------------------------------------------
\* Logout
\* ---------------------------------------------------------------------------

Accepted(tok) == protectStatus(tok) = 0

\* C22: logout changes no stored state, and a token that protect accepts
\* before any step -- a logout call in particular -- is still accepted after
\* it, as long as it has not expired and its user exists.
C22_LogoutHasNoEffect ==
    [][/\ \A s \in Slots :
            Handles(s, "logout") =>
                /\ UNCHANGED <<authVars, catVars, prodVars, mediaVars>>
                /\ slots'[s].res.status = 200
                /\ \A tok \in TokenInputs : Accepted(tok)' = Accepted(tok)
       /\ \A tok \in TokenInputs :
            (Accepted(tok) /\ now' < tok.exp /\ UserFindById(tok.id)' # {})
                => Accepted(tok)']_vars

\* logout has answered 200 to a request carrying a token that protect still
\* accepts
C22_Witness ==
    \E s \in Slots :
        /\ slots[s].pc = "done"
        /\ slots[s].req.op = "logout"
        /\ slots[s].res.status = 200
        /\ slots[s].res.by = "logout"
        /\ Accepted(slots[s].req.tok)

\* ---------------------------------------------------------------------------
\* Login
\* ---------------------------------------------------------------------------

\* a login field that is missing: not sent, or sent empty
Missing(b) == Falsy(b)

\* the users whose username is exactly the one sent
ExactUsers(req) ==
    {u \in users : req.username.t \in {"str", "num"} /\ u.username = req.username.v}

PasswordMatches(req, u) == req.password.t = "str" /\ Hashed(req.password.v) = u.password

\* C23: login returns 400 VALIDATION_ERROR when username or password is
\* missing; otherwise 401 INVALID_CREDENTIALS with one message both when no
\* user has exactly that username and when the password does not match; it
\* answers 200 with a token only when the user exists and the password
\* matches, and no failed login carries a token.
C23_LoginOutcomes ==
    [][\A s \in Slots :
          Handles(s, "login") =>
            LET req == slots[s].req
                res == slots'[s].res
                missing == Missing(req.username) \/ Missing(req.password)
                matching == {u \in ExactUsers(req) : PasswordMatches(req, u)}
            IN  /\ missing => res.status = 400 /\ res.error = "VALIDATION_ERROR"
                /\ (~missing /\ matching = {}) =>
                       /\ res.status = 401
                       /\ res.error = "INVALID_CREDENTIALS"
                       /\ res.message = "Invalid username or password"
                /\ (~missing /\ matching # {}) =>
                       /\ res.status = 200
                       /\ \E u \in matching : res.data.token = generateToken(u.id)
                /\ res.status # 200 => "data" \notin DOMAIN res]_vars

ProfileFields == {"id", "username", "name", "email"}

\* the user profile inside a response of login or getMe that carries one
ProfileIn(op, res) == IF op = "login" THEN res.data.user ELSE res.data

\* C24: no response of login or getMe contains the user's password or its
\* hash; a response that carries a user profile carries exactly id, username,
\* name and email, and a response without one carries only status, error code
\* and message.
C24_NoPasswordInResponses ==
    \A s \in Slots :
        (slots[s].pc = "done" /\ slots[s].req.op \in {"login", "getMe"}) =>
            LET res == slots[s].res
            IN  IF "data" \in DOMAIN res
                  THEN LET profile == ProfileIn(slots[s].req.op, res)
                       IN  /\ DOMAIN profile = ProfileFields
                           /\ \A f \in DOMAIN profile \ {"id"}, u \in users :
                                  profile[f] # u.password
                           /\ slots[s].req.op = "login" =>
                                  /\ DOMAIN res.data = {"token", "user"}
                                  /\ DOMAIN res.data.token = {"kind", "id", "key", "exp"}
                                  /\ \A f \in DOMAIN profile \ {"id"} :
                                         profile[f] # slots[s].req.password.v
                  ELSE DOMAIN res \subseteq {"status", "error", "errors", "by", "message"}

\* getMe has answered 200 with a profile to a request carrying the token of a
\* successful login
C24_Witness ==
    \E s \in Slots :
        /\ slots[s].pc = "done"
        /\ slots[s].req.op = "getMe"
        /\ "issuedBy" \in DOMAIN slots[s].req
        /\ slots[s].res.status = 200
        /\ slots[s].res.data.username = "admin"

\* C26: whether JWT_SECRET is set or not, protect accepts the token that a
\* successful login returned when it comes back on the client's next
\* protected request, provided it has not expired and its user still exists.
C26_LoginTokenAccepted ==
    [][\A s \in Slots :
          (/\ slots[s].pc = "protect"
           /\ "issuedBy" \in DOMAIN slots[s].req
           /\ slots'[s].pc # "protect"
           /\ now < slots[s].req.tok.exp
           /\ UserFindById(slots[s].req.tok.id) # {})
            => slots'[s].pc = "handler"]_vars

\* ---------------------------------------------------------------------------
\* Media identifiers
\* ---------------------------------------------------------------------------

\* the uploads whose returned URL is the image
UploadsReturning(image) == {n \in 1..uploads : image = CloudUrl(n)}

\* C25: the identifier deleteImage extracts from a URL that an upload
\* returned is the identifier of the object that upload created; when a
\* product is deleted, the destroy call made for such an image names that
\* object, which is gone afterwards unless the call failed.
C25_ExtractedIdIsUploadedId ==
    [][/\ \A n \in 1..uploads : PublicIdOf(CloudUrl(n)) = CloudPublicId(n)
       /\ \A s \in Slots : \A p \in products :
            (Handles(s, "deleteProduct") /\ p.id = slots[s].req.id) =>
                \A i \in 1..Len(p.images) : \A n \in UploadsReturning(p.images[i]) :
                    /\ PublicIdOf(p.images[i]) = CloudPublicId(n)
                    /\ i \notin slots[s].req.destroyFails => CloudPublicId(n) \notin media'
                    /\ i \notin slots[s].req.destroyFails =>
                         CloudPublicId(n) \in DestroyedIds(p.images, 1, slots[s].req.destroyFails)]_vars

\* a product holding the URLs of two uploads has been deleted with every
\* destroy call succeeding, and no media object is left
C25_Witness ==
    \E s \in Slots :
        /\ slots[s].pc = "done"
        /\ slots[s].req.op = "deleteProduct"
        /\ slots[s].req.destroyFails = {}
        /\ slots[s].res.status = 200
        /\ products = {}
        /\ uploads = 2
        /\ media = {}

\* ---------------------------------------------------------------------------
\* Referential integrity
\* ---------------------------------------------------------------------------

\* C27: with requests processed one at a time and no category renamed, the
\* category of every stored product is the name of a stored category.
C27_ReferentialIntegrity ==
    \A p \in products : \E c \in categories : c.name = p.category

\* deleteCategory has refused to remove the category a stored product
\* references
C27_Witness ==
    \E s \in Slots :
        /\ slots[s].pc = "done"
        /\ slots[s].req.op = "deleteCategory"
        /\ slots[s].res.error = "CATEGORY_IN_USE"
        /\ \E p \in products : \E c \in categories :
              c.id = slots[s].req.id /\ c.name = p.category

\* ---------------------------------------------------------------------------
\* File previews and the files to upload
\* ---------------------------------------------------------------------------

\* the files shown by the previews of type 'file', in order
FilePreviews ==
    LET shown == SelectSeq(ui.imagePreviews, LAMBDA p : p.type = "file")
    IN  [k \in 1..Len(shown) |-> shown[k].data]

\* C30: in the open form, whatever the order in which the file readers
\* complete and however selections and removals interleave, the k-th preview
\* of type 'file' shows the k-th entry of selectedImages, and once every
\* reader has completed the files a save would send are exactly the files
\* whose previews remain.
C30_PreviewsMatchSelectedImages ==
    ui.isModalOpen =>
        /\ \A k \in 1..Len(FilePreviews) :
              k <= Len(ui.selectedImages) /\ FilePreviews[k] = ui.selectedImages[k]
        /\ ui.readers = <<>> => FormRequest.files = FilePreviews

\* ---------------------------------------------------------------------------
\* The product list view
\* ---------------------------------------------------------------------------

\* a list load completes in slot s: its response is taken into the view
LoadCompletes(s) ==
    /\ slots[s].pc = "done"
    /\ slots[s].req.call.by = "loadProducts"
    /\ slots'[s].pc = "idle"

\* C29: whenever a list load has completed, after any sequence of page
\* changes, search changes and deletions, the current page is at least 1 and
\* at most the larger of 1 and totalPages.
C29_CurrentPageWithinPages ==
    [][\A s \in Slots :
          LoadCompletes(s) =>
              /\ 1 <= ui'.currentPage
              /\ ui'.currentPage <= (IF ui'.totalPages > 1 THEN ui'.totalPages ELSE 1)]_vars

\* C28: when a list load completes and no other one is outstanding, the
\* response taken into the view -- products, totalPages and totalItems -- is
\* the response to the request built from the current search, category, sort
\* and page, whatever the order in which overlapping responses arrived.
C28_LatestRequestShown ==
    [][\A s \in Slots :
          (/\ LoadCompletes(s)
           /\ slots[s].res.status = 200
           /\ \A t \in Slots \ {s} : slots[t].pc = "idle")
            => /\ slots[s].req.query = UrlQuery(ui')
               /\ ui'.products = Range(slots[s].res.data.products)
               /\ ui'.totalPages = slots[s].res.data.pagination.totalPages
               /\ ui'.totalItems = slots[s].res.data.pagination.totalItems]_vars

====
